---- MODULE Spec2Model ----
(***************************************************************************)
(* A model of the storj-monitor collector: the extraction functions of     *)
(* collector/service.py and collector/satellite_extractor.py, the store    *)
(* transaction of StorjCollector.store_metrics, and the collection loop of *)
(* StorjCollector.run with its signal handler, and the conversion          *)
(* functions of storj_monitor/utils.py.                                    *)
(*                                                                         *)
(* Representation.                                                         *)
(*  - A JSON value of an upstream document is a record [t, v]: t is the    *)
(*    kind of the value and v its integer content (0 when it has none).    *)
(*      missing  the key is absent          null     JSON null             *)
(*      num      a number v                 numstr   a string holding v    *)
(*      str      a non-empty string that is neither a number nor a         *)
(*               timestamp                  empty    the string ""         *)
(*      tsZ / tsOff / tsNaive   an ISO timestamp of day v, with a Z        *)
(*               suffix, an explicit offset, or no zone                    *)
(*      list     a JSON array (an unhashable value in Python)              *)
(*      float    a number with integer part v and a non-zero fraction      *)
(*      decstr   a string spelling such a number ("123.45")                *)
(*  - Byte counts are counted in GiB, so that the 100 GiB threshold of the *)
(*    vetting heuristic is the number 100.                                 *)
(*  - A score or a progress (a float in the code) is counted in            *)
(*    hundredths: ONE = 100 is 1.0.  An averaged score is the pair         *)
(*    [num, den] of the sum and the number of terms.                       *)
(***************************************************************************)
EXTENDS Integers, Sequences, FiniteSets, TLC

VARIABLES
    \* ---- the collector process (StorjCollector) ----
    pc,            \* position of run(): see RunStart .. Stopped
    is_running,    \* self.is_running
    idx,           \* index of the node the loop of collect_all_metrics is at
    all_metrics,   \* the record buffers of the cycle in progress
    txn,           \* the writer connection's uncommitted view of the database
    txn_step,      \* number of statement groups of store_metrics executed
    db,            \* the committed database, what every other connection reads
    cycle,         \* number of collection cycles started (the clock of utc_now)
    remaining,     \* iterations left of the interval wait; seconds left of the cool-down
    upstream,      \* the indices of Responses the nodes' dashboards may serve
    \* ---- history of the collector, for stating the properties ----
    fetched,       \* per node: index of the response served in this cycle (0: none)
    outcome,       \* per node: how its iteration of the loop ended
    db_pre,        \* the committed database when the cycle's store step began
    store_result,  \* "none" | "committed" | "failed": how the last store step ended
    last_daily,    \* per upserted table and key: the last record a committed cycle wrote
    stop_in_wait,  \* a stop signal arrived during the interval wait
    sleeps_after_stop, \* 1-second sleeps begun after a stop signal arrived in the wait
    cycles_after_stop, \* cycles begun after a stop signal arrived in the wait
    failed_cycles, \* the cycles whose store step failed
    stop_requested, \* the signal handler has run
    \* ---- one call of an extraction function on arbitrary input ----
    x_pc,          \* "input" | the name of the function applied
    x_node_info,   \* the node-info document
    x_satellite_info, \* the satellite-info document
    x_out,         \* the value returned
    \* ---- one call of AsyncHTTPClient.fetch_json ----
    f_pc,          \* "idle" | "request" | "sleep" | "returned" | "raised"
    f_max_retries, \* self.max_retries
    f_attempt,     \* the loop variable attempt
    f_last_exception, \* last_exception
    f_result,      \* what the call returned or raised
    f_log,         \* history: the requests made and the waits taken, in order
    \* ---- one call of a function of storj_monitor/utils.py ----
    u_pc,          \* "input" | the name of the function applied
    u_value,       \* the argument of safe_int and of the timestamp functions
    u_default,     \* safe_int's default
    u_size,        \* the argument of human_readable_to_bytes
    u_out          \* how the call ended: the exception raised and the value returned

collectorVars == <<pc, is_running, idx, all_metrics, txn, txn_step, db, cycle, remaining,
                   upstream>>
historyVars == <<fetched, outcome, db_pre, store_result, last_daily, stop_in_wait,
                 sleeps_after_stop, cycles_after_stop, failed_cycles, stop_requested>>
extractVars == <<x_pc, x_node_info, x_satellite_info, x_out>>
fetchVars == <<f_pc, f_max_retries, f_attempt, f_last_exception, f_result, f_log>>
utilVars == <<u_pc, u_value, u_default, u_size, u_out>>
vars == <<collectorVars, historyVars, extractVars, fetchVars, utilVars>>

-----------------------------------------------------------------------------
(* JSON values *)

J(t, v) == [t |-> t, v |-> v]
Missing == J("missing", 0)
Null == J("null", 0)
Num(n) == J("num", n)
NumStr(n) == J("numstr", n)
Str == J("str", 0)
Empty == J("empty", 0)
TsZ(d) == J("tsZ", d)
TsOff(d) == J("tsOff", d)
TsNaive(d) == J("tsNaive", d)
List == J("list", 0)
Float(n) == J("float", n)
DecStr(n) == J("decstr", n)

\* dict.get(key, default): the default only when the key is absent.
Get(value, default) == IF value.t = "missing" THEN default ELSE value

\* Python truthiness of a JSON value ("if not interval_start", "if join_timestamp").
Truthy(value) ==
    CASE value.t \in {"missing", "null", "empty"} -> FALSE
      [] value.t = "num" -> value.v # 0
      [] OTHER -> TRUE

\* 1.0 in hundredths.
ONE == 100

-----------------------------------------------------------------------------
(* storj_monitor/utils.py *)

\* int(value): an int is itself, a float is truncated, and a string must spell an
\* integer: int("123.45") raises ValueError as int of a non-numeric string does.
\* None or a list raises TypeError.  Both exceptions give the default.
safe_int(value, default) ==
    IF value.t \in {"num", "numstr", "float"} THEN value.v ELSE default

\* float(value): a string may spell a fraction as well; otherwise the same
\* failures.  Callers that pass no default get 0.0.  The value is counted in the
\* unit of the field, the part of a float below one unit dropped.
safe_float(value, default) ==
    IF value.t \in {"num", "numstr", "float", "decstr"} THEN value.v ELSE default

\* The default of safe_float's second parameter.
SafeFloatDefault == 0

\* The absent datetime (None).
NoDatetime == [day |-> 0 - 1, tz |-> "none"]

\* How timestamp_to_datetime(value) ends: "ok", or the exception it raises.
\* A non-string has no .replace (AttributeError); a string that is no ISO
\* timestamp fails both fromisoformat attempts (ValueError).
TimestampResult(value) ==
    CASE value.t \in {"tsZ", "tsOff", "tsNaive"} -> "ok"
      [] value.t \in {"str", "empty", "numstr", "decstr"} -> "ValueError"
      [] OTHER -> "AttributeError"

\* The datetime timestamp_to_datetime returns: Z is rewritten to +00:00, an offset is
\* kept, and a string without a zone parses at the first attempt and stays naive.
timestamp_to_datetime(value) ==
    [day |-> value.v,
     tz |-> CASE value.t = "tsZ" -> "utc"
              [] value.t = "tsOff" -> "offset"
              [] OTHER -> "naive"]

\* A size string: an optional leading number n (NoNumber when the string starts
\* with none) and the letters that follow it, surrounding blanks left out.
NoNumber == 0 - 1
SizeStr(n, tail) == [n |-> n, tail |-> tail]

\* str.upper, letter by letter.
UpperLetter(c) ==
    CASE c = "b" -> "B"
      [] c = "k" -> "K"
      [] c = "g" -> "G"
      [] OTHER -> c
Upper(tail) == [i \in 1..Len(tail) |-> UpperLetter(tail[i])]

\* The keys of the units dict in insertion order, the order the loop visits them
\* in; the multiplier of Units[i] is 1024 ** (i - 1).
Units == << <<"B">>, <<"K", "B">>, <<"M", "B">>, <<"G", "B">>, <<"T", "B">>, <<"P", "B">> >>

\* str.endswith
EndsWith(tail, unit) ==
    /\ Len(tail) >= Len(unit)
    /\ SubSeq(tail, Len(tail) - Len(unit) + 1, Len(tail)) = unit

\* size_str[:-len(unit)].strip()
WithoutUnit(size_str, unit) ==
    SizeStr(size_str.n, SubSeq(size_str.tail, 1, Len(size_str.tail) - Len(unit)))

\* float(s) succeeds: s is a number and nothing else.
FloatParses(size_str) == size_str.n # NoNumber /\ size_str.tail = <<>>

\* How a call ends: the exception raised ("none" when it returns) and the value.
Ended(raised, value) == [raised |-> raised, value |-> value]

\* An integer n * 1024 ** k.
Bytes(n, k) == [n |-> n, k |-> k]

\* The loop over units.items(): the first unit the string ends with decides; if
\* what precedes it is no number the loop is left (break) and ValueError raised.
RECURSIVE UnitLoop(_, _)
UnitLoop(size_str, i) ==
    IF i > Len(Units) THEN Ended("ValueError", Bytes(0, 0))
    ELSE IF EndsWith(size_str.tail, Units[i])
         THEN IF FloatParses(WithoutUnit(size_str, Units[i]))
              THEN Ended("none", Bytes(size_str.n, i - 1))
              ELSE Ended("ValueError", Bytes(0, 0))
         ELSE UnitLoop(size_str, i + 1)

\* human_readable_to_bytes: a bare number first, then the units.
human_readable_to_bytes(size_str) ==
    LET upper == SizeStr(size_str.n, Upper(size_str.tail))
    IN  IF FloatParses(upper) THEN Ended("none", Bytes(upper.n, 0))
        ELSE UnitLoop(upper, 1)

-----------------------------------------------------------------------------
(* collector/satellite_extractor.py *)

US1 == "12EayRS2V1kEsWESU9QMRseFhdxYxKicsiFmxrsLZHeLUtdps3S"
EU1 == "12L9ZFwhzVpuEKMUNUqkaTLGzwY9G24tbiigLiXpmZWKwmcNDDs"
AP1 == "121RTSDpyNZVcEU84Ticf2L1ntiuUimbWgfATz21tuvgk3vzoA6"
SALTLAKE == "1wFTAgs9DP5RSnCqKV1eLf6N9wtk4EAtmN5DpSxcs8EjT69tGE"
US1_LEGACY == "12EayRS2V1kEsWESU9QMRseFhdxYxKicsiFHpkmn1LT3StBp1R"
KNOWN_SATELLITES == {US1, EU1, AP1, SALTLAKE, US1_LEGACY}

\* A satellite ID no registry entry has, the ID of an entry without one (the ''
\* default of satellite_data.get('id', '')), and an ID that is a JSON array.
UNKNOWN_SAT == "1unknownSatelliteId"
NO_SAT == ""
LIST_SAT == "[]"

\* "satellite_id not in KNOWN_SATELLITES" hashes the ID: a list raises TypeError.
Unhashable(id) == id = LIST_SAT

\* gb_threshold * 100, in GiB.
VettingThreshold == 100

\* 1024 * 1024 * 1024 * 1024 bytes, in GiB.
VettingRequirement == 1024

Uncapped(a, b) == a
Min(a, b) == IF a < b THEN a ELSE b

_calculate_vetting_progress(satellite_data, is_vetted) ==
    IF is_vetted THEN ONE
    ELSE LET vetting_progress ==
                 safe_float(Get(satellite_data.vettingProgress, Num(0)), SafeFloatDefault)
             total_bandwidth ==
                 safe_int(Get(satellite_data.currentMonthIngress, Num(0)), 0)
                 + safe_int(Get(satellite_data.currentMonthEgress, Num(0)), 0)
         IN  IF vetting_progress > 0 THEN Min(vetting_progress, ONE)
             ELSE IF total_bandwidth > 0
                  THEN Min((total_bandwidth * ONE) \div VettingThreshold, ONE)
                  ELSE 0

\* is_vetted = vetted_timestamp is not None (.get returns None for an absent key too).
IsVetted(satellite_data) == satellite_data.vettedAt.t \notin {"missing", "null"}

VettingProgressOf(satellite_data) ==
    IF IsVetted(satellite_data) THEN ONE
    ELSE _calculate_vetting_progress(satellite_data, IsVetted(satellite_data))

\* vetted_at: parsed inside try/except (ValueError, TypeError), None otherwise.
VettedAtOf(satellite_data) ==
    IF IsVetted(satellite_data) /\ TimestampResult(satellite_data.vettedAt) = "ok"
    THEN timestamp_to_datetime(satellite_data.vettedAt)
    ELSE NoDatetime

JoinedAtOf(satellite_data) ==
    IF Truthy(satellite_data.joinedAt) /\ TimestampResult(satellite_data.joinedAt) = "ok"
    THEN timestamp_to_datetime(satellite_data.joinedAt)
    ELSE NoDatetime

\* One iteration of the loop over node_info.satellites raises: the ID is unhashable,
\* or a timestamp that is not a string reaches timestamp_to_datetime, whose
\* AttributeError the except (ValueError, TypeError) clauses do not catch.
SatelliteEntryRaises(satellite_data) ==
    \/ Unhashable(satellite_data.id)
    \/ /\ satellite_data.id \in KNOWN_SATELLITES
       /\ \/ /\ IsVetted(satellite_data)
             /\ TimestampResult(satellite_data.vettedAt) = "AttributeError"
          \/ /\ Truthy(satellite_data.joinedAt)
             /\ TimestampResult(satellite_data.joinedAt) = "AttributeError"

\* The record appended for one recognized satellite entry (scores at their defaults).
SatelliteStatusRecord(node_name, satellite_data, timestamp) ==
    [node_name |-> node_name,
     satellite_id |-> satellite_data.id,
     timestamp |-> timestamp,
     is_vetted |-> IsVetted(satellite_data),
     vetting_progress |-> VettingProgressOf(satellite_data),
     vetted_at |-> VettedAtOf(satellite_data),
     audit_score |-> ONE,
     suspension_score |-> ONE,
     online_score |-> ONE,
     joined_at |-> JoinedAtOf(satellite_data),
     current_month_egress |-> safe_int(Get(satellite_data.currentMonthEgress, Num(0)), 0),
     current_month_ingress |-> safe_int(Get(satellite_data.currentMonthIngress, Num(0)), 0)]

RECURSIVE StatusLoop(_, _, _)
StatusLoop(node_name, satellites, timestamp) ==
    IF satellites = <<>> THEN <<>>
    ELSE LET satellite_data == Head(satellites)
             rest == StatusLoop(node_name, Tail(satellites), timestamp)
         IN  IF satellite_data.id \notin KNOWN_SATELLITES THEN rest
             ELSE <<SatelliteStatusRecord(node_name, satellite_data, timestamp)>> \o rest

\* audit_map: satellite ID -> index of the last audit entry with that (truthy) ID,
\* 0 when there is none.
AuditIndexFirst(audits, satellite_id) ==
    LET ks == {k \in 1..Len(audits) : audits[k].satelliteID = satellite_id}
    IN  IF ks = {} THEN 0 ELSE CHOOSE k \in ks : \A j \in ks : k <= j
RECURSIVE AuditIndex(_, _)
AuditIndex(audits, satellite_id) ==
    IF audits = <<>> THEN 0
    ELSE IF audits[Len(audits)].satelliteID = satellite_id /\ satellite_id # NO_SAT
         THEN Len(audits)
         ELSE AuditIndex(SubSeq(audits, 1, Len(audits) - 1), satellite_id)

_update_satellite_scores(satellite_statuses, audits) ==
    [i \in 1..Len(satellite_statuses) |->
        LET satellite_status == satellite_statuses[i]
            k == AuditIndex(audits, satellite_status.satellite_id)
        IN  IF k = 0 THEN satellite_status
            ELSE [satellite_status EXCEPT
                    !.audit_score = safe_float(Get(audits[k].auditScore, Num(ONE)),
                                               SafeFloatDefault),
                    !.suspension_score = safe_float(Get(audits[k].suspensionScore, Num(ONE)),
                                                    SafeFloatDefault),
                    !.online_score = safe_float(Get(audits[k].onlineScore, Num(ONE)),
                                                SafeFloatDefault)]]

extract_satellite_status(node_name, node_info, satellite_info, timestamp) ==
    LET satellite_statuses == StatusLoop(node_name, node_info.satellites, timestamp)
    IN  IF satellite_info.audits # <<>>
        THEN _update_satellite_scores(satellite_statuses, satellite_info.audits)
        ELSE satellite_statuses

\* extract_satellite_status raises: an iteration of its loop does, or building
\* audit_map hashes an audit entry's satelliteID that is a list.
SatelliteStatusRaises(node_info, satellite_info) ==
    \/ \E i \in 1..Len(node_info.satellites) : SatelliteEntryRaises(node_info.satellites[i])
    \/ \E i \in 1..Len(satellite_info.audits) : Unhashable(satellite_info.audits[i].satelliteID)

\* The interval date of a daily entry, or -1 when the entry is skipped: a falsy
\* intervalStart, or one whose parse raises ValueError.
IntervalDate(entry) ==
    IF Truthy(entry.intervalStart) /\ TimestampResult(entry.intervalStart) = "ok"
    THEN timestamp_to_datetime(entry.intervalStart).day
    ELSE 0 - 1

\* A truthy intervalStart that is not a string: AttributeError, caught nowhere.
IntervalRaises(entry) ==
    Truthy(entry.intervalStart) /\ TimestampResult(entry.intervalStart) = "AttributeError"

\* daily_bw.get('egress', {}): the sub-object, {} when the key is absent.  A null
\* sub-object has no .get (AttributeError).
SubObjectRaises(sub) == sub.shape = "null"
SubGet(sub, field) == IF sub.shape = "dict" THEN sub[field] ELSE Missing

\* An entry passes the satellite filter of the daily loops.
RecognizedAnyId(entry) == entry.satelliteId # NO_SAT
RecognizedSatellite(entry) ==
    entry.satelliteId # NO_SAT /\ entry.satelliteId \in KNOWN_SATELLITES

BandwidthSatelliteRecord(node_name, daily_bw) ==
    [node_name |-> node_name,
     satellite_id |-> daily_bw.satelliteId,
     date |-> IntervalDate(daily_bw),
     storage_used_bytes |-> 0,
     storage_at_rest_bytes |-> 0,
     ingress_usage_bytes |-> safe_int(Get(SubGet(daily_bw.ingress, "usage"), Num(0)), 0),
     ingress_repair_bytes |-> safe_int(Get(SubGet(daily_bw.ingress, "repair"), Num(0)), 0),
     egress_usage_bytes |-> safe_int(Get(SubGet(daily_bw.egress, "usage"), Num(0)), 0),
     egress_repair_bytes |-> safe_int(Get(SubGet(daily_bw.egress, "repair"), Num(0)), 0),
     egress_audit_bytes |-> safe_int(Get(SubGet(daily_bw.egress, "audit"), Num(0)), 0),
     vetting_bandwidth_requirement |-> VettingRequirement,
     vetting_bandwidth_completed |->
         safe_int(Get(SubGet(daily_bw.ingress, "usage"), Num(0)), 0)
         + safe_int(Get(SubGet(daily_bw.egress, "usage"), Num(0)), 0)]

StorageSatelliteRecord(node_name, daily_storage) ==
    [node_name |-> node_name,
     satellite_id |-> daily_storage.satelliteId,
     date |-> IntervalDate(daily_storage),
     storage_used_bytes |-> safe_int(Get(daily_storage.atRestTotalBytes, Num(0)), 0),
     storage_at_rest_bytes |-> safe_int(Get(daily_storage.atRestTotalBytes, Num(0)), 0),
     ingress_usage_bytes |-> 0,
     ingress_repair_bytes |-> 0,
     egress_usage_bytes |-> 0,
     egress_repair_bytes |-> 0,
     egress_audit_bytes |-> 0,
     vetting_bandwidth_requirement |-> VettingRequirement,
     vetting_bandwidth_completed |-> 0]

\* The first pass: one record per bandwidth entry with a date and a recognized ID.
RECURSIVE BandwidthPass(_, _)
BandwidthPass(node_name, bandwidth_daily) ==
    IF bandwidth_daily = <<>> THEN <<>>
    ELSE LET daily_bw == Head(bandwidth_daily)
             rest == BandwidthPass(node_name, Tail(bandwidth_daily))
         IN  IF IntervalDate(daily_bw) < 0 \/ ~RecognizedSatellite(daily_bw) THEN rest
             ELSE <<BandwidthSatelliteRecord(node_name, daily_bw)>> \o rest

\* The linear scan for existing_metric: the index of the first record with the
\* satellite and the date, 0 when there is none.
FindNothing(daily_metrics, satellite_id, metric_date, from) == 0
RECURSIVE FindMetric(_, _, _, _)
FindMetric(daily_metrics, satellite_id, metric_date, from) ==
    IF from > Len(daily_metrics) THEN 0
    ELSE IF /\ daily_metrics[from].satellite_id = satellite_id
            /\ daily_metrics[from].date = metric_date
         THEN from
         ELSE FindMetric(daily_metrics, satellite_id, metric_date, from + 1)

\* What one storage entry does to daily_metrics: update the record found, or append.
MergeStorage(node_name, daily_metrics, daily_storage) ==
    LET k == FindMetric(daily_metrics, daily_storage.satelliteId,
                        IntervalDate(daily_storage), 1)
        storage_bytes == safe_int(Get(daily_storage.atRestTotalBytes, Num(0)), 0)
    IN  IF k > 0
        THEN [daily_metrics EXCEPT ![k].storage_used_bytes = storage_bytes,
                                   ![k].storage_at_rest_bytes = storage_bytes]
        ELSE Append(daily_metrics, StorageSatelliteRecord(node_name, daily_storage))

\* The second pass, over storage_daily in order.
RECURSIVE StoragePass(_, _, _)
StoragePass(node_name, daily_metrics, storage_daily) ==
    IF storage_daily = <<>> THEN daily_metrics
    ELSE LET daily_storage == Head(storage_daily)
         IN  IF IntervalDate(daily_storage) < 0 \/ ~RecognizedSatellite(daily_storage)
             THEN StoragePass(node_name, daily_metrics, Tail(storage_daily))
             ELSE StoragePass(node_name,
                              MergeStorage(node_name, daily_metrics, daily_storage),
                              Tail(storage_daily))

extract_daily_satellite_metrics(node_name, satellite_info) ==
    StoragePass(node_name,
                BandwidthPass(node_name, satellite_info.bandwidthDaily),
                satellite_info.storageDaily)

\* An entry makes extract_daily_satellite_metrics raise: its intervalStart is a
\* truthy non-string, its ID (reached only with a date) is unhashable, or, for a
\* bandwidth entry that passed both filters, a sub-object is null.
DailySatelliteEntryRaises(entry, is_bandwidth) ==
    \/ IntervalRaises(entry)
    \/ IntervalDate(entry) >= 0 /\ Unhashable(entry.satelliteId)
    \/ /\ is_bandwidth
       /\ IntervalDate(entry) >= 0
       /\ RecognizedSatellite(entry)
       /\ (SubObjectRaises(entry.egress) \/ SubObjectRaises(entry.ingress))

DailySatelliteRaises(satellite_info) ==
    \/ \E i \in 1..Len(satellite_info.bandwidthDaily) :
           DailySatelliteEntryRaises(satellite_info.bandwidthDaily[i], TRUE)
    \/ \E i \in 1..Len(satellite_info.storageDaily) :
           DailySatelliteEntryRaises(satellite_info.storageDaily[i], FALSE)

-----------------------------------------------------------------------------
(* collector/service.py: the extractors *)

extract_disk_metrics(node_name, node_info, timestamp) ==
    [node_name |-> node_name,
     timestamp |-> timestamp,
     used_bytes |-> safe_int(Get(node_info.diskSpace.used, Num(0)), 0),
     available_bytes |-> safe_int(Get(node_info.diskSpace.available, Num(0)), 0),
     trash_bytes |-> safe_int(Get(node_info.diskSpace.trash, Num(0)), 0),
     overused_bytes |-> safe_int(Get(node_info.diskSpace.overused, Num(0)), 0)]

extract_bandwidth_metrics(node_name, node_info, timestamp) ==
    [node_name |-> node_name,
     timestamp |-> timestamp,
     used_bytes |-> safe_int(Get(node_info.bandwidth.used, Num(0)), 0),
     available_bytes |-> safe_int(Get(node_info.bandwidth.available, Num(0)), 0)]

\* calculate_uptime_seconds, in days: a parse failure (ValueError) and the
\* subtraction of a naive datetime from an aware one (TypeError) both give 0.
calculate_uptime_seconds(started_at, now) ==
    IF TimestampResult(started_at) = "ok" /\ timestamp_to_datetime(started_at).tz # "naive"
    THEN now - timestamp_to_datetime(started_at).day
    ELSE 0

\* calculate_uptime_seconds catches ValueError and TypeError only: the
\* AttributeError of a started_at that is no string leaves the function.
UptimeRaises(started_at) == TimestampResult(started_at) = "AttributeError"

RECURSIVE SumScores(_, _)
SumScores(audits, field) ==
    IF audits = <<>> THEN 0
    ELSE safe_float(Get(Head(audits)[field], Num(ONE)), SafeFloatDefault)
         + SumScores(Tail(audits), field)

\* sum(scores) / len(scores) as the pair of both; 1.0 for an empty audits list.
AverageUndivided(audits, field) == [num |-> SumScores(audits, field), den |-> 1]
AverageScore(audits, field) ==
    IF audits = <<>> THEN [num |-> ONE, den |-> 1]
    ELSE [num |-> SumScores(audits, field), den |-> Len(audits)]

extract_health_metrics(node_name, node_info, satellite_info, timestamp) ==
    [node_name |-> node_name,
     timestamp |-> timestamp,
     uptime_seconds |-> calculate_uptime_seconds(node_info.startedAt, timestamp),
     last_pinged |-> timestamp_to_datetime(node_info.lastPinged),
     audit_score |-> AverageScore(satellite_info.audits, "auditScore"),
     suspension_score |-> AverageScore(satellite_info.audits, "suspensionScore"),
     online_score |-> AverageScore(satellite_info.audits, "onlineScore"),
     satellites_count |-> Len(node_info.satellites)]

\* timestamp_to_datetime(node_info.last_pinged) is called outside any try.
HealthRaises(node_info, satellite_info) == TimestampResult(node_info.lastPinged) # "ok"

DailyBandwidthRecord(node_name, daily_bw) ==
    [node_name |-> node_name,
     date |-> IntervalDate(daily_bw),
     ingress_usage_bytes |-> safe_int(Get(SubGet(daily_bw.ingress, "usage"), Num(0)), 0),
     ingress_repair_bytes |-> safe_int(Get(SubGet(daily_bw.ingress, "repair"), Num(0)), 0),
     egress_usage_bytes |-> safe_int(Get(SubGet(daily_bw.egress, "usage"), Num(0)), 0),
     egress_repair_bytes |-> safe_int(Get(SubGet(daily_bw.egress, "repair"), Num(0)), 0),
     egress_audit_bytes |-> safe_int(Get(SubGet(daily_bw.egress, "audit"), Num(0)), 0),
     delete_bytes |-> safe_int(Get(daily_bw.delete, Num(0)), 0)]

RECURSIVE extract_daily_bandwidth_metrics(_, _)
extract_daily_bandwidth_metrics(node_name, bandwidth_daily) ==
    IF bandwidth_daily = <<>> THEN <<>>
    ELSE LET daily_bw == Head(bandwidth_daily)
             rest == extract_daily_bandwidth_metrics(node_name, Tail(bandwidth_daily))
         IN  IF IntervalDate(daily_bw) < 0 THEN rest
             ELSE <<DailyBandwidthRecord(node_name, daily_bw)>> \o rest

\* Only ValueError is caught around the parse; a null sub-object of an entry
\* with a date has no .get.
DailyBandwidthRaises(satellite_info) ==
    \E i \in 1..Len(satellite_info.bandwidthDaily) :
        LET daily_bw == satellite_info.bandwidthDaily[i]
        IN  \/ IntervalRaises(daily_bw)
            \/ /\ IntervalDate(daily_bw) >= 0
               /\ (SubObjectRaises(daily_bw.egress) \/ SubObjectRaises(daily_bw.ingress))

\* daily_storage.get('atRestTotal', 0) / 24 if daily_storage.get('atRestTotal') else 0
HoursPerDay == 24

DailyStorageRecord(node_name, daily_storage) ==
    [node_name |-> node_name,
     date |-> IntervalDate(daily_storage),
     at_rest_total_bytes |-> safe_int(Get(daily_storage.atRestTotalBytes, Num(0)), 0),
     average_usage_bytes |->
         IF Truthy(daily_storage.atRestTotal)
         THEN daily_storage.atRestTotal.v \div HoursPerDay
         ELSE 0]

RECURSIVE extract_daily_storage_metrics(_, _)
extract_daily_storage_metrics(node_name, storage_daily) ==
    IF storage_daily = <<>> THEN <<>>
    ELSE LET daily_storage == Head(storage_daily)
             rest == extract_daily_storage_metrics(node_name, Tail(storage_daily))
         IN  IF IntervalDate(daily_storage) < 0 THEN rest
             ELSE <<DailyStorageRecord(node_name, daily_storage)>> \o rest

\* A truthy atRestTotal that is not a number cannot be divided by 24 (TypeError).
DailyStorageRaises(satellite_info) ==
    \E i \in 1..Len(satellite_info.storageDaily) :
        LET daily_storage == satellite_info.storageDaily[i]
        IN  \/ IntervalRaises(daily_storage)
            \/ /\ IntervalDate(daily_storage) >= 0
               /\ Truthy(daily_storage.atRestTotal)
               /\ daily_storage.atRestTotal.t # "num"

-----------------------------------------------------------------------------
(* Upstream documents *)

SatelliteEntry(id, vettedAt, vettingProgress, ingress, egress) ==
    [id |-> id, vettedAt |-> vettedAt, joinedAt |-> Missing,
     vettingProgress |-> vettingProgress,
     currentMonthIngress |-> ingress, currentMonthEgress |-> egress]

AuditEntry(satelliteID, auditScore, suspensionScore, onlineScore) ==
    [satelliteID |-> satelliteID, auditScore |-> auditScore,
     suspensionScore |-> suspensionScore, onlineScore |-> onlineScore]

SubObject(usage) ==
    [shape |-> "dict", usage |-> usage, repair |-> Missing, audit |-> Missing]
NullSubObject ==
    [shape |-> "null", usage |-> Missing, repair |-> Missing, audit |-> Missing]

BandwidthEntry(intervalStart, satelliteId, ingress, egress) ==
    [intervalStart |-> intervalStart, satelliteId |-> satelliteId,
     ingress |-> ingress, egress |-> egress, delete |-> Missing]

StorageEntry(intervalStart, satelliteId, atRestTotalBytes, atRestTotal) ==
    [intervalStart |-> intervalStart, satelliteId |-> satelliteId,
     atRestTotalBytes |-> atRestTotalBytes, atRestTotal |-> atRestTotal]

NodeInfo(nodeID, used, lastPinged, satellites) ==
    [nodeID |-> nodeID,
     satellites |-> satellites,
     diskSpace |-> [used |-> Num(used), available |-> Num(8), trash |-> Num(0),
                    overused |-> Missing],
     bandwidth |-> [used |-> Num(used), available |-> Missing],
     lastPinged |-> lastPinged,
     startedAt |-> TsZ(0)]

SatelliteInfo(audits, bandwidthDaily, storageDaily) ==
    [audits |-> audits, bandwidthDaily |-> bandwidthDaily, storageDaily |-> storageDaily]

\* What collect_node_data ends with: the two documents, or the error fetch_json
\* raises after its last attempt.
Response(node_info, satellite_info) ==
    [fetch |-> "ok", node_info |-> node_info, satellite_info |-> satellite_info]

\* A well-formed node: one unvetted satellite, entries with an unknown and with no
\* satellite ID in every list, two bandwidth entries of one day.
DocA ==
    Response(
        NodeInfo("idA", 1, TsZ(1),
                 <<SatelliteEntry(US1, Null, Missing, Num(50), Num(0)),
                   SatelliteEntry(UNKNOWN_SAT, Num(5), Missing, Num(9), Num(9)),
                   SatelliteEntry(NO_SAT, Missing, Missing, Missing, Missing)>>),
        SatelliteInfo(
            <<AuditEntry(US1, Num(87), Num(100), Num(99))>>,
            <<BandwidthEntry(TsZ(1), US1, SubObject(Num(3)), SubObject(Num(2))),
              BandwidthEntry(TsZ(1), UNKNOWN_SAT, SubObject(Num(4)), SubObject(Num(4))),
              BandwidthEntry(Str, US1, SubObject(Num(6)), SubObject(Num(6)))>>,
            <<StorageEntry(TsZ(1), US1, Num(5), Num(48)),
              StorageEntry(TsZ(1), NO_SAT, Num(7), Num(24))>>))

\* The same node later: another node ID, the satellite vetted, other figures for
\* the same day and a second day.
DocB ==
    Response(
        NodeInfo("idB", 2, TsZ(2),
                 <<SatelliteEntry(US1, TsZ(1), Missing, Num(60), Num(1))>>),
        SatelliteInfo(
            <<>>,
            <<BandwidthEntry(TsZ(1), US1, SubObject(Num(7)), SubObject(Num(1))),
              BandwidthEntry(TsZ(2), EU1, SubObject(Num(1)), SubObject(Num(1)))>>,
            <<StorageEntry(TsZ(1), US1, Num(6), Num(72))>>))

\* lastPinged is no timestamp: extract_health_metrics raises.
DocBadPing ==
    Response(
        NodeInfo("idA", 3, Str,
                 <<SatelliteEntry(US1, Null, Missing, Num(50), Num(0))>>),
        SatelliteInfo(
            <<>>,
            <<BandwidthEntry(TsZ(1), US1, SubObject(Num(8)), SubObject(Num(8)))>>,
            <<StorageEntry(TsZ(1), US1, Num(8), Num(24))>>))

\* A satellite's vettedAt is a number: extract_satellite_status raises, after the
\* five extractors of service.py have run.
DocBadVetted ==
    Response(
        NodeInfo("idA", 4, TsZ(1),
                 <<SatelliteEntry(EU1, Num(5), Missing, Num(50), Num(0))>>),
        SatelliteInfo(
            <<>>,
            <<BandwidthEntry(TsZ(1), EU1, SubObject(Num(9)), SubObject(Num(9)))>>,
            <<StorageEntry(TsZ(2), EU1, Num(9), Num(24))>>))

FetchError ==
    [fetch |-> "error", node_info |-> DocA.node_info, satellite_info |-> DocA.satellite_info]

\* The responses the upstream of a node may serve in a cycle.
Responses == <<FetchError, DocA, DocB, DocBadPing, DocBadVetted>>

-----------------------------------------------------------------------------
(* collector/service.py: one collection cycle *)

\* settings.nodes (validate_nodes: at least one node, names unique).
Nodes == <<"node1", "node2">>
NodeSet == {Nodes[i] : i \in 1..Len(Nodes)}

\* SQL NULL in nodes.node_id, and all_metrics.get(...) of a key never set (None).
NULL == "NULL"

\* all_metrics as collect_all_metrics creates it.
EmptyMetrics ==
    [node_id |-> [n \in NodeSet |-> NULL],
     disk |-> <<>>, bandwidth |-> <<>>, health |-> <<>>,
     daily_bandwidth |-> <<>>, daily_storage |-> <<>>,
     satellite_status |-> <<>>, daily_satellite |-> <<>>]

\* How the try block of one node ends: "ok", "fetch" when collect_node_data
\* raised, or the extractor that raised.
Outcome(resp) ==
    IF resp.fetch # "ok" THEN "fetch"
    ELSE IF HealthRaises(resp.node_info, resp.satellite_info) THEN "health"
    ELSE IF DailyBandwidthRaises(resp.satellite_info) THEN "daily_bandwidth"
    ELSE IF DailyStorageRaises(resp.satellite_info) THEN "daily_storage"
    ELSE IF SatelliteStatusRaises(resp.node_info, resp.satellite_info)
         THEN "satellite_status"
    ELSE IF DailySatelliteRaises(resp.satellite_info) THEN "daily_satellite"
    ELSE "ok"

\* The statements of the try block in order; all_metrics keeps whatever was
\* appended before the statement that raised.
CollectInto(am, node_name, resp, timestamp) ==
    LET node_info == resp.node_info
        satellite_info == resp.satellite_info
        a0 == [am EXCEPT !.node_id[node_name] = node_info.nodeID]
        a1 == [a0 EXCEPT !.disk =
                  Append(@, extract_disk_metrics(node_name, node_info, timestamp))]
        a2 == [a1 EXCEPT !.bandwidth =
                  Append(@, extract_bandwidth_metrics(node_name, node_info, timestamp))]
        a3 == [a2 EXCEPT !.health =
                  Append(@, extract_health_metrics(node_name, node_info, satellite_info,
                                                   timestamp))]
        a4 == [a3 EXCEPT !.daily_bandwidth =
                  @ \o extract_daily_bandwidth_metrics(node_name,
                                                       satellite_info.bandwidthDaily)]
        a5 == [a4 EXCEPT !.daily_storage =
                  @ \o extract_daily_storage_metrics(node_name,
                                                     satellite_info.storageDaily)]
        a6 == [a5 EXCEPT !.satellite_status =
                  @ \o extract_satellite_status(node_name, node_info, satellite_info,
                                                timestamp)]
        a7 == [a6 EXCEPT !.daily_satellite =
                  @ \o extract_daily_satellite_metrics(node_name, satellite_info)]
        how == Outcome(resp)
    IN  IF how = "fetch" THEN am
        ELSE IF how = "health" THEN a2
        ELSE IF how = "daily_bandwidth" THEN a3
        ELSE IF how = "daily_storage" THEN a4
        ELSE IF how = "satellite_status" THEN a5
        ELSE IF how = "daily_satellite" THEN a6
        ELSE a7

\* The loop variable after one node: "continue" in the except clause, and the
\* end of the loop body otherwise, both go on with the next node.
NextNodeBreak(i, how) == IF how = "ok" THEN i + 1 ELSE Len(Nodes) + 1
NextNode(i, how) == i + 1

-----------------------------------------------------------------------------
(* collector/service.py: store_metrics *)

\* The database init_db leaves: the schema applied, one nodes row per configured
\* node with no node_id, every metrics table empty.
EmptyDb ==
    [nodes |-> [n \in NodeSet |-> NULL],
     metrics_disk |-> {}, metrics_bandwidth |-> {}, metrics_health |-> {},
     metrics_daily_bandwidth |-> {}, metrics_daily_storage |-> {},
     node_satellites |-> {}, metrics_daily_satellite |-> {}]

\* The uniqueness constraints INSERT OR REPLACE resolves conflicts on.
KeyOf(table, row) ==
    CASE table \in {"metrics_daily_bandwidth", "metrics_daily_storage"} ->
            <<row.node_name, row.date>>
      [] table = "node_satellites" -> <<row.node_name, row.satellite_id>>
      [] table = "metrics_daily_satellite" ->
            <<row.node_name, row.satellite_id, row.date>>

\* UPDATE nodes SET node_id = ? WHERE name = ? AND node_id IS NULL
UpdateNodeIdAlways(stored, reported) == reported
UpdateNodeId(stored, reported) == IF stored = NULL THEN reported ELSE stored

\* INSERT INTO <table>: a new row.
Insert(rows, row) == rows \cup {row}

\* INSERT OR REPLACE INTO <table>: the rows in conflict are deleted first.
InsertOrAdd(table, rows, row) == rows \cup {row}
InsertOrReplace(table, rows, row) ==
    {r \in rows : KeyOf(table, r) # KeyOf(table, row)} \cup {row}

RECURSIVE InsertAll(_, _)
InsertAll(rows, records) ==
    IF records = <<>> THEN rows
    ELSE InsertAll(Insert(rows, Head(records)), Tail(records))

RECURSIVE ReplaceAll(_, _, _)
ReplaceAll(table, rows, records) ==
    IF records = <<>> THEN rows
    ELSE ReplaceAll(table, InsertOrReplace(table, rows, Head(records)), Tail(records))

\* The eight groups of statements of store_metrics, in order.
StatementGroups == 8

Execute(k, d, am) ==
    CASE k = 1 -> [d EXCEPT !.nodes =
                      [n \in NodeSet |-> UpdateNodeId(d.nodes[n], am.node_id[n])]]
      [] k = 2 -> [d EXCEPT !.metrics_disk = InsertAll(@, am.disk)]
      [] k = 3 -> [d EXCEPT !.metrics_bandwidth = InsertAll(@, am.bandwidth)]
      [] k = 4 -> [d EXCEPT !.metrics_health = InsertAll(@, am.health)]
      [] k = 5 -> [d EXCEPT !.metrics_daily_bandwidth =
                      ReplaceAll("metrics_daily_bandwidth", @, am.daily_bandwidth)]
      [] k = 6 -> [d EXCEPT !.metrics_daily_storage =
                      ReplaceAll("metrics_daily_storage", @, am.daily_storage)]
      [] k = 7 -> [d EXCEPT !.node_satellites =
                      ReplaceAll("node_satellites", @, am.satellite_status)]
      [] k = 8 -> [d EXCEPT !.metrics_daily_satellite =
                      ReplaceAll("metrics_daily_satellite", @, am.daily_satellite)]

\* What the other connections read after the writer executed a statement without
\* committing: sqlite3 opens a transaction before the first INSERT or UPDATE, so
\* they still read the committed database.
VisibleAutocommit(committed, uncommitted) == uncommitted
VisibleAfterExecute(committed, uncommitted) == committed

-----------------------------------------------------------------------------
(* collector/service.py: run() and the signal handler *)

\* Collection cycles a behaviour may start.
MaxCycles == 2

\* settings.monitoring.poll_interval * 60: the iterations of the interval wait.
PollSeconds == 2

\* The last record of each key among records, over what prev held for other keys.
LastWrites(table, prev, records) ==
    LET keys == {KeyOf(table, records[i]) : i \in 1..Len(records)}
        last == {i \in 1..Len(records) :
                    \A j \in (i + 1)..Len(records) :
                        KeyOf(table, records[j]) # KeyOf(table, records[i])}
    IN  {r \in prev : KeyOf(table, r) \notin keys} \cup {records[i] : i \in last}

\* all_metrics = {...}: the buffers are a local variable, created empty by every
\* call of collect_all_metrics.
BuffersKept(previous) == previous
BuffersAtEntry(previous) == EmptyMetrics

\* collect_all_metrics is entered: fresh buffers, the loop at the first node.
StartCycle ==
    /\ pc' = "collect"
    /\ idx' = 1
    /\ all_metrics' = BuffersAtEntry(all_metrics)
    /\ cycle' = cycle + 1
    /\ fetched' = [n \in NodeSet |-> 0]
    /\ outcome' = [n \in NodeSet |-> "pending"]
    /\ store_result' = "none"

\* run(): is_running = True, then the initial collection.
RunStart ==
    /\ pc = "run"
    /\ is_running' = TRUE
    /\ StartCycle
    /\ UNCHANGED <<txn, txn_step, db, remaining, upstream, db_pre, last_daily,
                   stop_in_wait, sleeps_after_stop, cycles_after_stop, failed_cycles, stop_requested, extractVars,
                   fetchVars, utilVars>>

\* One iteration of "for node in self.settings.nodes"; after the last node
\* store_metrics opens its connection.
CollectNode ==
    /\ pc = "collect"
    /\ idx <= Len(Nodes)
    /\ \E r \in upstream :
          LET how == Outcome(Responses[r])
              next == NextNode(idx, how)
          IN  /\ all_metrics' = CollectInto(all_metrics, Nodes[idx], Responses[r], cycle)
              /\ fetched' = [fetched EXCEPT ![Nodes[idx]] = r]
              /\ outcome' = [outcome EXCEPT ![Nodes[idx]] = how]
              /\ idx' = next
              /\ IF next > Len(Nodes)
                 THEN pc' = "store" /\ txn' = db /\ txn_step' = 0 /\ db_pre' = db
                 ELSE UNCHANGED <<pc, txn, txn_step, db_pre>>
    /\ UNCHANGED <<is_running, db, cycle, remaining, upstream, store_result, last_daily,
                   stop_in_wait, sleeps_after_stop, cycles_after_stop, failed_cycles, stop_requested, extractVars,
                   fetchVars, utilVars>>

\* store_metrics executes its next group of statements on its connection.
ExecuteStatements ==
    /\ pc = "store"
    /\ txn_step < StatementGroups
    /\ txn' = Execute(txn_step + 1, txn, all_metrics)
    /\ txn_step' = txn_step + 1
    /\ db' = VisibleAfterExecute(db, txn')
    /\ UNCHANGED <<pc, is_running, idx, all_metrics, cycle, remaining, upstream,
                   historyVars, extractVars, fetchVars, utilVars>>

\* await db.commit(), and collect_all_metrics returns.
Commit ==
    /\ pc = "store"
    /\ txn_step = StatementGroups
    /\ db' = txn
    /\ txn_step' = 0
    /\ pc' = "loop"
    /\ store_result' = "committed"
    /\ last_daily' =
          [bandwidth |-> LastWrites("metrics_daily_bandwidth", last_daily.bandwidth,
                                    all_metrics.daily_bandwidth),
           storage |-> LastWrites("metrics_daily_storage", last_daily.storage,
                                  all_metrics.daily_storage),
           status |-> LastWrites("node_satellites", last_daily.status,
                                 all_metrics.satellite_status)]
    /\ UNCHANGED <<is_running, idx, all_metrics, txn, cycle, remaining, upstream,
                   fetched, outcome, db_pre, stop_in_wait, sleeps_after_stop,
                   cycles_after_stop, failed_cycles, stop_requested, extractVars,
                   fetchVars, utilVars>>

\* connect, a statement or the commit raises: the connection is closed without a
\* commit, and the except clause of collect_all_metrics logs the error.
StoreFail ==
    /\ pc = "store"
    /\ txn' = db
    /\ txn_step' = 0
    /\ pc' = "loop"
    /\ store_result' = "failed"
    /\ failed_cycles' = failed_cycles \cup {cycle}
    /\ UNCHANGED <<is_running, idx, all_metrics, db, cycle, remaining, upstream,
                   fetched, outcome, db_pre, last_daily, stop_in_wait, sleeps_after_stop,
                   cycles_after_stop, stop_requested, extractVars,
                   fetchVars, utilVars>>

\* The condition of "while self.is_running".
LoopGoesOnAlways(flag) == TRUE
LoopGoesOn(flag) == flag

\* "while self.is_running" holds: the interval wait begins.
LoopEnter ==
    /\ pc = "loop"
    /\ LoopGoesOn(is_running)
    /\ pc' = "wait"
    /\ remaining' = PollSeconds
    /\ UNCHANGED <<is_running, idx, all_metrics, txn, txn_step, db, cycle, upstream,
                   historyVars, extractVars, fetchVars, utilVars>>

\* "while self.is_running" fails: run() logs "Collector stopped." and returns.
LoopExit ==
    /\ pc = "loop"
    /\ ~LoopGoesOn(is_running)
    /\ pc' = "stopped"
    /\ UNCHANGED <<is_running, idx, all_metrics, txn, txn_step, db, cycle, remaining,
                   upstream, historyVars, extractVars, fetchVars, utilVars>>

\* "if not self.is_running: break" at the head of each iteration of the wait.
WaitGoesOnUnchecked(flag) == TRUE
WaitGoesOn(flag) == flag

\* An iteration of the wait passes the check and begins asyncio.sleep(1).
WaitSleep ==
    /\ pc = "wait"
    /\ remaining > 0
    /\ WaitGoesOn(is_running)
    /\ pc' = "sleep"
    /\ sleeps_after_stop' = IF stop_in_wait THEN 1 ELSE sleeps_after_stop
    /\ UNCHANGED <<is_running, idx, all_metrics, txn, txn_step, db, cycle, remaining,
                   upstream, fetched, outcome, db_pre, store_result, last_daily,
                   stop_in_wait, cycles_after_stop, failed_cycles, stop_requested, extractVars,
                   fetchVars, utilVars>>

\* The check finds the flag cleared: break.
WaitBreak ==
    /\ pc = "wait"
    /\ remaining > 0
    /\ ~WaitGoesOn(is_running)
    /\ pc' = "after_wait"
    /\ UNCHANGED <<is_running, idx, all_metrics, txn, txn_step, db, cycle, remaining,
                   upstream, historyVars, extractVars, fetchVars, utilVars>>

\* range(poll_interval_seconds) is exhausted.
WaitEnd ==
    /\ pc = "wait"
    /\ remaining = 0
    /\ pc' = "after_wait"
    /\ UNCHANGED <<is_running, idx, all_metrics, txn, txn_step, db, cycle, remaining,
                   upstream, historyVars, extractVars, fetchVars, utilVars>>

\* asyncio.sleep(1) returns.
SleepReturn ==
    /\ pc = "sleep"
    /\ remaining' = remaining - 1
    /\ pc' = "wait"
    /\ UNCHANGED <<is_running, idx, all_metrics, txn, txn_step, db, cycle, upstream,
                   historyVars, extractVars, fetchVars, utilVars>>

\* "if self.is_running: await self.collect_all_metrics()" after the wait.
NextCycle ==
    /\ pc = "after_wait"
    /\ is_running
    /\ cycle < MaxCycles
    /\ StartCycle
    /\ cycles_after_stop' = IF stop_in_wait THEN 1 ELSE cycles_after_stop
    /\ UNCHANGED <<is_running, txn, txn_step, db, remaining, upstream, db_pre, last_daily,
                   stop_in_wait, sleeps_after_stop, failed_cycles, stop_requested, extractVars,
                   fetchVars, utilVars>>

\* The flag is cleared after the wait: no collection, back to the while test.
SkipCycle ==
    /\ pc = "after_wait"
    /\ ~is_running
    /\ pc' = "loop"
    /\ UNCHANGED <<is_running, idx, all_metrics, txn, txn_step, db, cycle, remaining,
                   upstream, historyVars, extractVars, fetchVars, utilVars>>

\* signal_handler: SIGINT or SIGTERM is delivered, at any point of the process.
Signal ==
    /\ pc \notin {"stopped", "crashed"}
    /\ is_running' = FALSE
    /\ stop_in_wait' = (stop_in_wait \/ pc \in {"wait", "sleep"})
    /\ stop_requested' = TRUE
    /\ UNCHANGED <<pc, idx, all_metrics, txn, txn_step, db, cycle, remaining, upstream,
                   fetched, outcome, db_pre, store_result, last_daily, sleeps_after_stop,
                   cycles_after_stop, failed_cycles, extractVars,
                   fetchVars, utilVars>>

\* No call of an extraction function is in progress.
ExtractIdle ==
    /\ x_pc = "idle"
    /\ x_node_info = DocA.node_info
    /\ x_satellite_info = DocA.satellite_info
    /\ x_out = [raised |-> FALSE, value |-> <<>>]

\* No call of fetch_json is followed step by step.
FetchIdle ==
    /\ f_pc = "idle"
    /\ f_max_retries = 0
    /\ f_attempt = 0
    /\ f_last_exception = [error |-> "none", attempt |-> 0]
    /\ f_result = [error |-> "none", attempt |-> 0]
    /\ f_log = <<>>

\* No call of a utils function is followed.
UtilIdle ==
    /\ u_pc = "idle"
    /\ u_value = Null
    /\ u_default = 0
    /\ u_size = SizeStr(NoNumber, <<>>)
    /\ u_out = Ended("none", 0)

\* The collector constructed (is_running = False, the handlers installed) over the
\* database init_db created.
InitCollector ==
    /\ pc = "run"
    /\ is_running = FALSE
    /\ idx = 1
    /\ all_metrics = EmptyMetrics
    /\ txn = EmptyDb
    /\ txn_step = 0
    /\ db = EmptyDb
    /\ cycle = 0
    /\ remaining = 0
    /\ fetched = [n \in NodeSet |-> 0]
    /\ outcome = [n \in NodeSet |-> "pending"]
    /\ db_pre = EmptyDb
    /\ store_result = "none"
    /\ last_daily = [bandwidth |-> {}, storage |-> {}, status |-> {}]
    /\ stop_in_wait = FALSE
    /\ sleeps_after_stop = 0
    /\ cycles_after_stop = 0
    /\ failed_cycles = {}
    /\ stop_requested = FALSE

\* The collector running undisturbed: every response may be served, no signal
\* is sent.
Init ==
    /\ InitCollector
    /\ upstream = 1..Len(Responses)
    /\ ExtractIdle
    /\ FetchIdle
    /\ UtilIdle

Next ==
    \/ RunStart
    \/ CollectNode
    \/ ExecuteStatements
    \/ Commit
    \/ StoreFail
    \/ LoopEnter
    \/ WaitSleep
    \/ WaitEnd
    \/ SleepReturn
    \/ NextCycle

Spec == Init /\ [][Next]_vars

\* The collector under SIGINT/SIGTERM, its nodes failing or serving DocA.
InitRun ==
    /\ InitCollector
    /\ upstream = {1, 2}
    /\ ExtractIdle
    /\ FetchIdle
    /\ UtilIdle

NextRun ==
    \/ Next
    \/ LoopExit
    \/ WaitBreak
    \/ SkipCycle
    \/ Signal

SpecRun == InitRun /\ [][NextRun]_vars

\* The steps of run() itself.  Every awaited call returns and the event loop
\* resumes the coroutine, so a step of run() that stays possible is taken; no
\* signal has to arrive.
RunStep ==
    \/ Next
    \/ LoopExit
    \/ WaitBreak
    \/ SkipCycle

SpecStop == InitRun /\ [][NextRun]_vars /\ WF_vars(RunStep)

\* An exception leaves collect_all_metrics: one raised outside its two try blocks
\* (the settings iteration, the logging calls of the except clauses).  The open
\* connection is closed without a commit.  The initial call (the first cycle) is
\* outside the try of run(), so the exception leaves run(); a later call is inside
\* it, and the except clause logs and, if the flag is still set, sleeps 60 seconds.
\* The length of the sleep after an exception the loop of run() caught.
CooldownSeconds == 60

CycleRaises ==
    /\ pc \in {"collect", "store"}
    /\ txn' = db
    /\ txn_step' = 0
    /\ store_result' = IF pc = "store" THEN "failed" ELSE store_result
    /\ pc' = IF cycle = 1 THEN "crashed"
             ELSE IF is_running THEN "cooldown" ELSE "loop"
    /\ failed_cycles' = IF pc = "store" THEN failed_cycles \cup {cycle} ELSE failed_cycles
    /\ remaining' = IF cycle # 1 /\ is_running THEN CooldownSeconds ELSE remaining
    /\ UNCHANGED <<is_running, idx, all_metrics, db, cycle, upstream,
                   fetched, outcome, db_pre, last_daily, stop_in_wait, sleeps_after_stop,
                   cycles_after_stop, stop_requested, extractVars,
                   fetchVars, utilVars>>

\* One second of asyncio.sleep(60) passes; the flag is not read.
CooldownTick ==
    /\ pc = "cooldown"
    /\ remaining > 0
    /\ remaining' = remaining - 1
    /\ UNCHANGED <<pc, is_running, idx, all_metrics, txn, txn_step, db, cycle,
                   upstream, historyVars, extractVars, fetchVars, utilVars>>

\* asyncio.sleep(60) returns: back to the while test.
CooldownReturn ==
    /\ pc = "cooldown"
    /\ remaining = 0
    /\ pc' = "loop"
    /\ UNCHANGED <<is_running, idx, all_metrics, txn, txn_step, db, cycle, remaining,
                   upstream, historyVars, extractVars, fetchVars, utilVars>>

NextFault ==
    \/ NextRun
    \/ CycleRaises
    \/ CooldownTick
    \/ CooldownReturn

\* The collector under signals and unexpected exceptions of a whole cycle.
SpecFault == InitRun /\ [][NextFault]_vars

-----------------------------------------------------------------------------
(* The extraction functions applied to arbitrary documents *)

\* Longest upstream list (satellites, audits, bandwidthDaily, storageDaily).
MaxEntries == 2

SeqsUpTo(S, n) == UNION {[1..k -> S] : k \in 0..n}

\* One satellite entry of node-info, every field over its kinds of value.
SatelliteEntries ==
    {SatelliteEntry(id, vettedAt, vettingProgress, ingress, egress) :
        id \in {US1, UNKNOWN_SAT},
        vettedAt \in {Missing, Null, TsZ(1), Str, Num(5)},
        vettingProgress \in {Missing, Num(0), Num(45), Num(100), Num(150), Str},
        ingress \in {Missing, Num(50), Num(2000), Str},
        egress \in {Num(0), Num(30)}}

\* The entries the longer satellite lists are made of.
FewSatelliteEntries ==
    {SatelliteEntry(US1, Null, Missing, Num(50), Num(0)),
     SatelliteEntry(US1, TsZ(1), Missing, Num(0), Num(0)),
     SatelliteEntry(EU1, Missing, Num(150), Missing, Missing),
     SatelliteEntry(UNKNOWN_SAT, Num(5), Missing, Num(9), Num(9)),
     SatelliteEntry(NO_SAT, Missing, Missing, Missing, Missing)}

AuditEntries ==
    {AuditEntry(US1, Num(87), Num(100), Num(99)),
     AuditEntry(US1, Str, Num(100), Null),
     AuditEntry(US1, Missing, Missing, Missing),
     AuditEntry(EU1, Null, Num(95), NumStr(98)),
     AuditEntry(NO_SAT, Num(50), Num(50), Num(50))}

BandwidthEntries ==
    {BandwidthEntry(TsZ(1), US1, SubObject(Num(3)), SubObject(Num(2))),
     BandwidthEntry(TsZ(1), US1, SubObject(Num(7)), SubObject(Num(1))),
     BandwidthEntry(TsZ(2), EU1, SubObject(Str), SubObject(Null)),
     BandwidthEntry(TsZ(1), UNKNOWN_SAT, SubObject(Num(4)), SubObject(Num(4))),
     BandwidthEntry(TsZ(1), NO_SAT, SubObject(Num(5)), SubObject(Num(5))),
     BandwidthEntry(Str, US1, SubObject(Num(6)), SubObject(Num(6)))}

StorageEntries ==
    {StorageEntry(TsZ(1), US1, Num(5), Num(48)),
     StorageEntry(TsZ(1), US1, Num(6), Num(72)),
     StorageEntry(TsZ(2), EU1, Str, Num(24)),
     StorageEntry(TsZ(1), UNKNOWN_SAT, Num(7), Num(24)),
     StorageEntry(Missing, US1, Num(8), Num(24))}

\* The result of a call: whether it raised, and the records returned otherwise.
Returned(raised, value) ==
    [raised |-> raised, value |-> IF raised THEN <<>> ELSE value]

CallSatelliteStatus ==
    /\ x_pc = "input"
    /\ x_pc' = "extract_satellite_status"
    /\ x_out' = Returned(SatelliteStatusRaises(x_node_info, x_satellite_info),
                         extract_satellite_status("node1", x_node_info, x_satellite_info, 1))
    /\ UNCHANGED <<x_node_info, x_satellite_info, collectorVars, historyVars, fetchVars, utilVars>>

CallDailySatellite ==
    /\ x_pc = "input"
    /\ x_pc' = "extract_daily_satellite_metrics"
    /\ x_out' = Returned(DailySatelliteRaises(x_satellite_info),
                         extract_daily_satellite_metrics("node1", x_satellite_info))
    /\ UNCHANGED <<x_node_info, x_satellite_info, collectorVars, historyVars, fetchVars, utilVars>>

CallHealth ==
    /\ x_pc = "input"
    /\ x_pc' = "extract_health_metrics"
    /\ x_out' = Returned(HealthRaises(x_node_info, x_satellite_info),
                         <<extract_health_metrics("node1", x_node_info, x_satellite_info, 1)>>)
    /\ UNCHANGED <<x_node_info, x_satellite_info, collectorVars, historyVars, fetchVars, utilVars>>

CallDailyBandwidth ==
    /\ x_pc = "input"
    /\ x_pc' = "extract_daily_bandwidth_metrics"
    /\ x_out' = Returned(DailyBandwidthRaises(x_satellite_info),
                         extract_daily_bandwidth_metrics("node1",
                                                         x_satellite_info.bandwidthDaily))
    /\ UNCHANGED <<x_node_info, x_satellite_info, collectorVars, historyVars, fetchVars, utilVars>>

CallDailyStorage ==
    /\ x_pc = "input"
    /\ x_pc' = "extract_daily_storage_metrics"
    /\ x_out' = Returned(DailyStorageRaises(x_satellite_info),
                         extract_daily_storage_metrics("node1", x_satellite_info.storageDaily))
    /\ UNCHANGED <<x_node_info, x_satellite_info, collectorVars, historyVars, fetchVars, utilVars>>

InitExtract ==
    /\ InitCollector
    /\ upstream = {}
    /\ x_pc = "input"
    /\ x_out = [raised |-> FALSE, value |-> <<>>]
    /\ FetchIdle
    /\ UtilIdle
    /\ \/ \E satellites \in {<<e>> : e \in SatelliteEntries}
                             \cup SeqsUpTo(FewSatelliteEntries, MaxEntries) :
          \E audits \in SeqsUpTo(AuditEntries, MaxEntries) :
             /\ x_node_info = NodeInfo("idA", 1, TsZ(1), satellites)
             /\ x_satellite_info = SatelliteInfo(audits, <<>>, <<>>)
       \/ \E bandwidthDaily \in SeqsUpTo(BandwidthEntries, MaxEntries) :
          \E storageDaily \in SeqsUpTo(StorageEntries, MaxEntries) :
             /\ x_node_info = NodeInfo("idA", 1, TsZ(1), <<>>)
             /\ x_satellite_info = SatelliteInfo(<<>>, bandwidthDaily, storageDaily)

NextExtract ==
    \/ CallSatelliteStatus
    \/ CallDailySatellite
    \/ CallHealth
    \/ CallDailyBandwidth
    \/ CallDailyStorage

SpecExtract == InitExtract /\ [][NextExtract]_vars

-----------------------------------------------------------------------------
(* storj_monitor/utils.py: AsyncHTTPClient.fetch_json, followed request by request *)

\* Largest max_retries a client is created with.
MaxRetries == 3

\* MonitoringConfig.retry_delay, in seconds.
RetryDelay == 5

\* What "except (httpx.HTTPError, httpx.RequestError)" catches: a timeout, a
\* connection error, an error status raised by raise_for_status.
HttpErrors == {"timeout", "connect", "status"}

\* What a request may end with: a JSON body, a caught error, or a body that
\* response.json() cannot decode (an exception the except clause does not catch).
RequestOutcomes == {"ok", "invalid_json"} \cup HttpErrors

NoError == [error |-> "none", attempt |-> 0]
Requested(how) == [kind |-> "request", outcome |-> how, delay |-> 0]
Slept(delay) == [kind |-> "sleep", outcome |-> "none", delay |-> delay]

\* range(self.max_retries + 1): the number of iterations of the attempt loop.
AttemptsTwice(max_retries) == 2 * (max_retries + 1)
Attempts(max_retries) == max_retries + 1

\* The end of an iteration that caught an error: the next attempt, or, the range
\* exhausted, "raise last_exception".
FetchAdvance(last_exception) ==
    IF f_attempt + 1 < Attempts(f_max_retries)
    THEN /\ f_pc' = "request"
         /\ f_attempt' = f_attempt + 1
         /\ f_result' = f_result
    ELSE /\ f_pc' = "raised"
         /\ f_attempt' = f_attempt
         /\ f_result' = last_exception

\* One iteration of the loop up to the end of the request: self._client.get,
\* raise_for_status and response.json().
FetchRequest ==
    /\ f_pc = "request"
    /\ \E o \in RequestOutcomes :
          LET e == [error |-> o, attempt |-> f_attempt]
          IN  CASE o = "ok" ->
                     /\ f_pc' = "returned"
                     /\ f_result' = NoError
                     /\ f_log' = Append(f_log, Requested(o))
                     /\ UNCHANGED <<f_attempt, f_last_exception>>
                [] o = "invalid_json" ->
                     /\ f_pc' = "raised"
                     /\ f_result' = e
                     /\ f_log' = Append(f_log, Requested(o))
                     /\ UNCHANGED <<f_attempt, f_last_exception>>
                [] OTHER ->
                     /\ f_last_exception' = e
                     /\ IF f_attempt < f_max_retries
                        THEN /\ f_pc' = "sleep"
                             /\ f_log' = f_log \o <<Requested(o), Slept(RetryDelay)>>
                             /\ UNCHANGED <<f_attempt, f_result>>
                        ELSE /\ f_log' = Append(f_log, Requested(o))
                             /\ FetchAdvance(e)
    /\ UNCHANGED <<f_max_retries, collectorVars, historyVars, extractVars, utilVars>>

\* asyncio.sleep(self.retry_delay) returns.
FetchSleepReturn ==
    /\ f_pc = "sleep"
    /\ FetchAdvance(f_last_exception)
    /\ UNCHANGED <<f_max_retries, f_last_exception, f_log, collectorVars, historyVars,
                   extractVars, utilVars>>

\* fetch_json is called on an entered client, with any max_retries up to MaxRetries.
InitFetch ==
    /\ InitCollector
    /\ upstream = {}
    /\ ExtractIdle
    /\ UtilIdle
    /\ f_pc = "request"
    /\ f_max_retries \in 0..MaxRetries
    /\ f_attempt = 0
    /\ f_last_exception = NoError
    /\ f_result = NoError
    /\ f_log = <<>>

NextFetch ==
    \/ FetchRequest
    \/ FetchSleepReturn

SpecFetch == InitFetch /\ [][NextFetch]_vars

-----------------------------------------------------------------------------
(* storj_monitor/utils.py: one call of a conversion function on arbitrary input *)

\* The largest number and the latest day among the inputs.
MaxNumber == 2

\* The defaults the callers and the tests pass to safe_int.
Defaults == {0, 999}

UtilValues ==
    {Null, Str, Empty, List}
    \cup UNION {{Num(n), NumStr(n), Float(n), DecStr(n), TsZ(n), TsOff(n), TsNaive(n)} :
                n \in 0..MaxNumber}

Letters == {"B", "K", "M", "G", "T", "P", "X", "b", "k", "g"}
Tails == {<<>>} \cup {<<c>> : c \in Letters} \cup {<<c, d>> : c, d \in Letters}

\* utc_now() at the call of calculate_uptime_seconds.
UtilNow == MaxNumber + 1

CallSafeInt ==
    /\ u_pc = "input"
    /\ u_pc' = "safe_int"
    /\ u_out' = Ended("none", safe_int(u_value, u_default))
    /\ UNCHANGED <<u_value, u_default, u_size, collectorVars, historyVars, extractVars,
                   fetchVars>>

CallTimestamp ==
    /\ u_pc = "input"
    /\ u_pc' = "timestamp_to_datetime"
    /\ u_out' = IF TimestampResult(u_value) = "ok"
                THEN Ended("none", timestamp_to_datetime(u_value))
                ELSE Ended(TimestampResult(u_value), NoDatetime)
    /\ UNCHANGED <<u_value, u_default, u_size, collectorVars, historyVars, extractVars,
                   fetchVars>>

CallUptime ==
    /\ u_pc = "input"
    /\ u_pc' = "calculate_uptime_seconds"
    /\ u_out' = IF UptimeRaises(u_value)
                THEN Ended(TimestampResult(u_value), 0)
                ELSE Ended("none", calculate_uptime_seconds(u_value, UtilNow))
    /\ UNCHANGED <<u_value, u_default, u_size, collectorVars, historyVars, extractVars,
                   fetchVars>>

CallHumanReadableToBytes ==
    /\ u_pc = "input"
    /\ u_pc' = "human_readable_to_bytes"
    /\ u_out' = human_readable_to_bytes(u_size)
    /\ UNCHANGED <<u_value, u_default, u_size, collectorVars, historyVars, extractVars,
                   fetchVars>>

InitUtil ==
    /\ InitCollector
    /\ upstream = {}
    /\ ExtractIdle
    /\ FetchIdle
    /\ u_pc = "input"
    /\ u_value \in UtilValues
    /\ u_default \in Defaults
    /\ \E n \in {NoNumber} \cup 1..MaxNumber : \E tail \in Tails : u_size = SizeStr(n, tail)
    /\ u_out = Ended("none", 0)

NextUtil ==
    \/ CallSafeInt
    \/ CallTimestamp
    \/ CallUptime
    \/ CallHumanReadableToBytes

SpecUtil == InitUtil /\ [][NextUtil]_vars

-----------------------------------------------------------------------------
(* Properties *)

\* The response served to node n in the cycle in progress.
Served(n) == Responses[fetched[n]]

\* Some row of rows has the key of record.
KeyPresent(table, rows, record) ==
    \E r \in rows : KeyOf(table, r) = KeyOf(table, record)

\* Every record of the sequence has a row of its key in rows.
AllKeysPresent(table, rows, records) ==
    \A i \in 1..Len(records) : KeyPresent(table, rows, records[i])

\* C1: a node whose fetch fails does not stop the loop or the store step.  The store
\* step begins only after every configured node was visited, and when it commits,
\* every node whose fetch and extraction succeeded has its disk, bandwidth and
\* health record of this cycle in the database, a row for the key of each of its
\* daily and satellite records, and its node ID backfilled if none was stored.
C1_FailingNodeDoesNotBlockOthers ==
    /\ pc = "store" => \A n \in NodeSet : outcome[n] # "pending"
    /\ store_result = "committed" =>
          \A n \in NodeSet :
              outcome[n] = "ok" =>
                  LET node_info == Served(n).node_info
                      satellite_info == Served(n).satellite_info
                  IN  /\ extract_disk_metrics(n, node_info, cycle) \in db.metrics_disk
                      /\ extract_bandwidth_metrics(n, node_info, cycle)
                             \in db.metrics_bandwidth
                      /\ extract_health_metrics(n, node_info, satellite_info, cycle)
                             \in db.metrics_health
                      /\ AllKeysPresent("metrics_daily_bandwidth",
                             db.metrics_daily_bandwidth,
                             extract_daily_bandwidth_metrics(n, satellite_info.bandwidthDaily))
                      /\ AllKeysPresent("metrics_daily_storage",
                             db.metrics_daily_storage,
                             extract_daily_storage_metrics(n, satellite_info.storageDaily))
                      /\ AllKeysPresent("node_satellites", db.node_satellites,
                             extract_satellite_status(n, node_info, satellite_info, cycle))
                      /\ AllKeysPresent("metrics_daily_satellite",
                             db.metrics_daily_satellite,
                             extract_daily_satellite_metrics(n, satellite_info))
                      /\ db_pre.nodes[n] = NULL => db.nodes[n] = node_info.nodeID

\* A cycle committed in which one node's fetch failed and another node succeeded.
C1_Witness ==
    /\ store_result = "committed"
    /\ \E n, m \in NodeSet :
          /\ outcome[n] = "fetch"
          /\ outcome[m] = "ok"
          /\ \E r \in db.metrics_disk : r.node_name = m /\ r.timestamp = cycle

\* Everything the database holds about node n.
RowsOf(d, n) ==
    [node_id |-> d.nodes[n],
     metrics_disk |-> {r \in d.metrics_disk : r.node_name = n},
     metrics_bandwidth |-> {r \in d.metrics_bandwidth : r.node_name = n},
     metrics_health |-> {r \in d.metrics_health : r.node_name = n},
     metrics_daily_bandwidth |-> {r \in d.metrics_daily_bandwidth : r.node_name = n},
     metrics_daily_storage |-> {r \in d.metrics_daily_storage : r.node_name = n},
     node_satellites |-> {r \in d.node_satellites : r.node_name = n},
     metrics_daily_satellite |-> {r \in d.metrics_daily_satellite : r.node_name = n}]

\* C2: a node whose fetch or extraction failed in a cycle is excluded from what
\* the cycle stores: after the commit the database holds about that node exactly
\* what it held before the cycle, whichever step raised.
C2_FailedNodeExcluded ==
    store_result = "committed" =>
        \A n \in NodeSet :
            outcome[n] \notin {"ok", "pending"} => RowsOf(db, n) = RowsOf(db_pre, n)

\* C3: every status record extract_satellite_status returns has
\* vetting_progress = 1.0 exactly when is_vetted is true.
C3_ProgressOneIffVetted ==
    (x_pc = "extract_satellite_status" /\ ~x_out.raised) =>
        \A i \in 1..Len(x_out.value) :
            (x_out.value[i].vetting_progress = ONE) <=> x_out.value[i].is_vetted

\* The document without the entries whose satellite ID the registry does not hold.
Recognized(entries, field) ==
    SelectSeq(entries, LAMBDA e : e[field] \in KNOWN_SATELLITES)
WithoutUnknown(resp) ==
    [resp EXCEPT
        !.node_info.satellites = Recognized(@, "id"),
        !.satellite_info.bandwidthDaily = Recognized(@, "satelliteId"),
        !.satellite_info.storageDaily = Recognized(@, "satelliteId")]
HasUnknown(resp) == WithoutUnknown(resp) # resp

OneRowPerKey(table, rows) ==
    \A r, q \in rows : KeyOf(table, r) = KeyOf(table, q) => r = q

\* C5: each daily bandwidth and daily storage table holds, for every (node, date)
\* written so far, exactly one row, equal in every column to the last record a
\* committed cycle wrote for that key.
C5_DailyAggregateReplaced ==
    /\ db.metrics_daily_bandwidth = last_daily.bandwidth
    /\ db.metrics_daily_storage = last_daily.storage
    /\ OneRowPerKey("metrics_daily_bandwidth", db.metrics_daily_bandwidth)
    /\ OneRowPerKey("metrics_daily_storage", db.metrics_daily_storage)

\* A committed cycle replaced a daily bandwidth row of an earlier cycle by a row
\* of the same key with other figures.
C5_Witness ==
    /\ store_result = "committed"
    /\ \E r \in db_pre.metrics_daily_bandwidth :
          /\ r \notin db.metrics_daily_bandwidth
          /\ \E q \in db.metrics_daily_bandwidth :
                /\ KeyOf("metrics_daily_bandwidth", q) = KeyOf("metrics_daily_bandwidth", r)
                /\ q.ingress_usage_bytes # r.ingress_usage_bytes

\* A daily entry the per-satellite extraction keeps.
Kept(entry) == IntervalDate(entry) >= 0 /\ RecognizedSatellite(entry)

\* The indices of the kept entries of a list with the satellite and date of entry.
SameKey(entries, entry) ==
    {k \in 1..Len(entries) :
        /\ Kept(entries[k])
        /\ entries[k].satelliteId = entry.satelliteId
        /\ IntervalDate(entries[k]) = IntervalDate(entry)}

\* C6: when one bandwidth entry and one storage entry carry the same recognized
\* satellite and the same date, extract_daily_satellite_metrics returns exactly
\* one record of that key: its bandwidth fields are the bandwidth entry's, both
\* storage fields the storage entry's atRestTotalBytes, and
\* vetting_bandwidth_completed the sum of the ingress and egress usage.
C6_BandwidthAndStorageMerged ==
    (x_pc = "extract_daily_satellite_metrics" /\ ~x_out.raised) =>
        LET bandwidth_daily == x_satellite_info.bandwidthDaily
            storage_daily == x_satellite_info.storageDaily
        IN  \A i \in 1..Len(bandwidth_daily), j \in 1..Len(storage_daily) :
                LET daily_bw == bandwidth_daily[i]
                    daily_storage == storage_daily[j]
                    found == {k \in 1..Len(x_out.value) :
                                 /\ x_out.value[k].satellite_id = daily_bw.satelliteId
                                 /\ x_out.value[k].date = IntervalDate(daily_bw)}
                    usage_in == safe_int(Get(SubGet(daily_bw.ingress, "usage"), Num(0)), 0)
                    usage_out == safe_int(Get(SubGet(daily_bw.egress, "usage"), Num(0)), 0)
                    at_rest == safe_int(Get(daily_storage.atRestTotalBytes, Num(0)), 0)
                IN  (/\ SameKey(bandwidth_daily, daily_bw) = {i}
                     /\ SameKey(storage_daily, daily_bw) = {j})
                    => /\ Cardinality(found) = 1
                       /\ \A k \in found :
                             /\ x_out.value[k].node_name = "node1"
                             /\ x_out.value[k].ingress_usage_bytes = usage_in
                             /\ x_out.value[k].egress_usage_bytes = usage_out
                             /\ x_out.value[k].ingress_repair_bytes =
                                   safe_int(Get(SubGet(daily_bw.ingress, "repair"), Num(0)), 0)
                             /\ x_out.value[k].egress_repair_bytes =
                                   safe_int(Get(SubGet(daily_bw.egress, "repair"), Num(0)), 0)
                             /\ x_out.value[k].egress_audit_bytes =
                                   safe_int(Get(SubGet(daily_bw.egress, "audit"), Num(0)), 0)
                             /\ x_out.value[k].storage_used_bytes = at_rest
                             /\ x_out.value[k].storage_at_rest_bytes = at_rest
                             /\ x_out.value[k].vetting_bandwidth_completed =
                                   usage_in + usage_out

\* A call merged a bandwidth entry and a storage entry of one key into the single
\* record returned for it, among records of another key.
C6_Witness ==
    /\ x_pc = "extract_daily_satellite_metrics"
    /\ ~x_out.raised
    /\ \E i \in 1..Len(x_satellite_info.bandwidthDaily) :
          /\ SameKey(x_satellite_info.bandwidthDaily,
                     x_satellite_info.bandwidthDaily[i]) = {i}
          /\ Cardinality(SameKey(x_satellite_info.storageDaily,
                                 x_satellite_info.bandwidthDaily[i])) = 1
    /\ \E k \in 1..Len(x_out.value) :
          /\ x_out.value[k].storage_at_rest_bytes > 0
          /\ x_out.value[k].ingress_usage_bytes > 0

\* A numeric field that float() or int() rejects: a string that holds no number,
\* null, a value of another type.
FailsToCoerce(value) == value.t \in {"str", "empty", "null", "list"}

\* The value the claim documents for a score: the upstream number, 1.0 otherwise.
DocumentedScore(value) == IF value.t \in {"num", "numstr"} THEN value.v ELSE ONE

RECURSIVE SumDocumented(_, _)
SumDocumented(audits, field) ==
    IF audits = <<>> THEN 0
    ELSE DocumentedScore(Head(audits)[field]) + SumDocumented(Tail(audits), field)

\* C7: a numeric upstream field that fails to coerce leaves its documented default
\* in the record: 1.0 for the audit, suspension and online score of a satellite's
\* status record and as that entry's term of the averaged health scores, 0 for the
\* current-month byte counts.
C7_CoercionDefaults ==
    /\ (x_pc = "extract_satellite_status" /\ ~x_out.raised) =>
          \A i \in 1..Len(x_out.value) :
              LET k == AuditIndex(x_satellite_info.audits, x_out.value[i].satellite_id)
                  audit == x_satellite_info.audits[k]
              IN  k > 0 =>
                    /\ FailsToCoerce(audit.auditScore) => x_out.value[i].audit_score = ONE
                    /\ FailsToCoerce(audit.suspensionScore)
                          => x_out.value[i].suspension_score = ONE
                    /\ FailsToCoerce(audit.onlineScore) => x_out.value[i].online_score = ONE
    /\ (x_pc = "extract_satellite_status" /\ ~x_out.raised
          /\ Len(x_node_info.satellites) = 1 /\ Len(x_out.value) = 1) =>
          /\ FailsToCoerce(x_node_info.satellites[1].currentMonthIngress)
                => x_out.value[1].current_month_ingress = 0
          /\ FailsToCoerce(x_node_info.satellites[1].currentMonthEgress)
                => x_out.value[1].current_month_egress = 0
    /\ (x_pc = "extract_health_metrics" /\ ~x_out.raised
          /\ x_satellite_info.audits # <<>>) =>
          /\ x_out.value[1].audit_score.num =
                SumDocumented(x_satellite_info.audits, "auditScore")
          /\ x_out.value[1].suspension_score.num =
                SumDocumented(x_satellite_info.audits, "suspensionScore")
          /\ x_out.value[1].online_score.num =
                SumDocumented(x_satellite_info.audits, "onlineScore")

RECURSIVE ExecuteUpTo(_, _, _)
ExecuteUpTo(k, d, am) ==
    IF k = 0 THEN d ELSE Execute(k, ExecuteUpTo(k - 1, d, am), am)

\* C8: what another connection reads is the database as it was before the
\* cycle's store step for as long as store_metrics runs and after it failed, and
\* the database with every statement of the cycle applied after it committed.
C8_ReadersSeeNoneOrAll ==
    /\ pc = "store" => db = db_pre
    /\ store_result = "failed" => db = db_pre
    /\ store_result = "committed" => db = ExecuteUpTo(StatementGroups, db_pre, all_metrics)

\* store_metrics has executed some of its statements, which changed rows, and
\* has not committed.
C8_Witness ==
    /\ pc = "store"
    /\ txn_step \in 1..(StatementGroups - 1)
    /\ txn.metrics_disk # db.metrics_disk
    /\ txn.nodes # db.nodes

\* C9: a node_id stored in the nodes row of a node is never changed by a later step.
C9_NodeIdSetOnce ==
    [][\A n \in NodeSet : db.nodes[n] # NULL => db'.nodes[n] = db.nodes[n]]_vars

\* A cycle committed for a node that now reports another node ID than the one
\* stored, and for a node with a stored ID whose fetch failed.
C9_Witness ==
    /\ store_result = "committed"
    /\ \E n \in NodeSet :
          /\ db_pre.nodes[n] # NULL
          /\ all_metrics.node_id[n] \notin {NULL, db_pre.nodes[n]}
          /\ db.nodes[n] = db_pre.nodes[n]
    /\ \E n \in NodeSet :
          /\ db_pre.nodes[n] # NULL
          /\ outcome[n] = "fetch"

\* C10: once a stop signal has arrived during the interval wait, no further
\* 1-second sleep is begun (the one in progress ends the wait) and no further
\* collection cycle is started.
C10_StopEndsWait ==
    /\ sleeps_after_stop = 0
    /\ cycles_after_stop = 0
    /\ (stop_in_wait /\ pc = "sleep") => ~is_running

\* The wait ended with iterations left, after a signal that arrived during it.
C10_Witness ==
    /\ stop_in_wait
    /\ pc = "after_wait"
    /\ remaining > 0

\* C11: an unexpected exception that escapes a collection cycle, the first one
\* included, never ends run(): it is caught in run() and the loop goes on.
C11_CycleExceptionCaught == pc # "crashed"

\* The requests among the entries of a log.
RequestsIn(log) == {i \in 1..Len(log) : log[i].kind = "request"}

\* C12: a call of fetch_json makes at most max_retries + 1 requests; every request
\* but the last failed with a caught error and is followed by one wait of the fixed
\* retry_delay and then the next request; a call that returned ends with its only
\* successful request; a call that raised ends with a failed request, without a
\* wait after it, raises the error of that request, after max_retries + 1 requests
\* if the error is one the loop retries, and makes the node's iteration fail.
C12_BoundedRetries ==
    /\ Cardinality(RequestsIn(f_log)) <= f_max_retries + 1
    /\ \A i \in 1..(Len(f_log) - 1) :
          IF f_log[i].kind = "request"
          THEN /\ f_log[i].outcome \in HttpErrors
               /\ f_log[i + 1] = Slept(RetryDelay)
          ELSE f_log[i + 1].kind = "request"
    /\ f_pc = "returned" => f_log[Len(f_log)] = Requested("ok")
    /\ f_pc = "raised" =>
          /\ f_log[Len(f_log)].kind = "request"
          /\ f_log[Len(f_log)].outcome # "ok"
          /\ f_result = [error |-> f_log[Len(f_log)].outcome,
                         attempt |-> Cardinality(RequestsIn(f_log)) - 1]
          /\ f_result.error \in HttpErrors
                => Cardinality(RequestsIn(f_log)) = f_max_retries + 1
          /\ Outcome(FetchError) = "fetch"
    /\ f_pc \in {"request", "sleep"} => Cardinality(RequestsIn(f_log)) = f_attempt
                                           + (IF f_pc = "sleep" THEN 1 ELSE 0)

\* A call with retries configured raised after its last attempt failed, having
\* waited between the attempts.
C12_Witness ==
    /\ f_pc = "raised"
    /\ f_max_retries > 0
    /\ f_result.error \in HttpErrors
    /\ Cardinality(RequestsIn(f_log)) = f_max_retries + 1
    /\ Cardinality({i \in 1..Len(f_log) : f_log[i].kind = "sleep"}) = f_max_retries

\* C13: when both documents of a node are well-formed at the top level, a
\* malformed timestamp in one of their fields never makes an extraction step of
\* that node raise: the node's iteration ends successfully.
C13_MalformedTimestampAbsorbed ==
    \A n \in NodeSet :
        (fetched[n] # 0 /\ Served(n).fetch = "ok") => outcome[n] = "ok"

\* A score that is a number, or absent from its audit entry.
NumberOrAbsent(value) == value.t \in {"num", "numstr", "missing"}

\* The term of an audit entry in the mean: its score, 1.0 when it has none.
MeanTerm(value) == IF value.t = "missing" THEN ONE ELSE value.v

RECURSIVE SumTerms(_, _)
SumTerms(audits, field) ==
    IF audits = <<>> THEN 0
    ELSE MeanTerm(Head(audits)[field]) + SumTerms(Tail(audits), field)

\* score (a fraction num / den) is the mean of the field over the audits list.
IsMeanOf(score, audits, field) ==
    /\ score.den > 0
    /\ IF audits = <<>> THEN score.num = ONE * score.den
       ELSE (\A i \in 1..Len(audits) : NumberOrAbsent(audits[i][field]))
               => score.num * Len(audits) = SumTerms(audits, field) * score.den

\* C14: the health record's audit, suspension and online score are each the
\* arithmetic mean of that score over all entries of the audits list, an entry
\* without the score counting as 1.0, and 1.0 for an empty list; satellites_count
\* is the length of the node-info satellite list.
C14_HealthScoresAreMeans ==
    (x_pc = "extract_health_metrics" /\ ~x_out.raised) =>
        /\ IsMeanOf(x_out.value[1].audit_score, x_satellite_info.audits, "auditScore")
        /\ IsMeanOf(x_out.value[1].suspension_score, x_satellite_info.audits,
                    "suspensionScore")
        /\ IsMeanOf(x_out.value[1].online_score, x_satellite_info.audits, "onlineScore")
        /\ x_out.value[1].satellites_count = Len(x_node_info.satellites)

\* The health record of two audit entries, one with a measured audit score below
\* 1.0 and one without any, over a node with two satellites.
C14_Witness ==
    /\ x_pc = "extract_health_metrics"
    /\ ~x_out.raised
    /\ Len(x_satellite_info.audits) = 2
    /\ \E i, j \in 1..2 :
          /\ x_satellite_info.audits[i].auditScore.t = "num"
          /\ x_satellite_info.audits[i].auditScore.v < ONE
          /\ x_satellite_info.audits[j].auditScore.t = "missing"
    /\ x_out.value[1].audit_score.num < 2 * ONE
    /\ x_out.value[1].satellites_count = 2

\* A byte count as the heuristic reads it: the number, 0 when it is not one.
CountOf(value) == IF value.t \in {"num", "numstr"} THEN value.v ELSE 0

\* C15: the status record of a satellite entry without vettedAt has is_vetted
\* false and, as vetting_progress, the explicit vettingProgress capped at 1.0 if
\* that is a number > 0, else the current-month ingress plus egress over 100 GiB
\* capped at 1.0 if that total is > 0, else 0.0; it lies within [0, 1], and
\* 2000 GiB of ingress with no vettingProgress give exactly 1.0.
C15_ProgressFallbackOrder ==
    (/\ x_pc = "extract_satellite_status"
     /\ ~x_out.raised
     /\ Len(x_node_info.satellites) = 1
     /\ x_node_info.satellites[1].id \in KNOWN_SATELLITES
     /\ x_node_info.satellites[1].vettedAt.t \in {"missing", "null"}) =>
        LET entry == x_node_info.satellites[1]
            explicit == entry.vettingProgress
            total == CountOf(entry.currentMonthIngress) + CountOf(entry.currentMonthEgress)
            progress == x_out.value[1].vetting_progress
        IN  /\ Len(x_out.value) = 1
            /\ x_out.value[1].is_vetted = FALSE
            /\ progress >= 0 /\ progress <= ONE
            /\ IF explicit.t \in {"num", "numstr"} /\ explicit.v > 0
               THEN progress = (IF explicit.v > ONE THEN ONE ELSE explicit.v)
               ELSE IF total > 0
                    THEN progress = (IF total >= 100 THEN ONE ELSE (total * ONE) \div 100)
                    ELSE progress = 0
            /\ (entry.currentMonthIngress = Num(2000) /\ explicit.t = "missing")
                  => progress = ONE

\* The record of an unvetted entry with 2000 GiB of ingress and no vettingProgress:
\* the bandwidth heuristic at its cap.
C15_Witness ==
    /\ x_pc = "extract_satellite_status"
    /\ ~x_out.raised
    /\ Len(x_node_info.satellites) = 1
    /\ Len(x_out.value) = 1
    /\ x_node_info.satellites[1].vettedAt.t = "missing"
    /\ x_node_info.satellites[1].vettingProgress.t = "missing"
    /\ x_node_info.satellites[1].currentMonthIngress = Num(2000)
    /\ x_out.value[1].is_vetted = FALSE
    /\ x_out.value[1].vetting_progress = ONE

\* The audit entries that carry the satellite ID.
AuditsOf(audits, satellite_id) ==
    {k \in 1..Len(audits) : audits[k].satelliteID = satellite_id}

\* The last of a non-empty set of indices.
LastOf(ks) == CHOOSE k \in ks : \A j \in ks : j <= k

\* The score a status record shows for an audit entry's field: the entry's score,
\* 1.0 when the entry has none.
ScoreCopied(score, value) == NumberOrAbsent(value) => score = MeanTerm(value)

\* C16: the records extract_satellite_status returns are those of its loop over
\* the satellite list, one for one and equal in every field but the three scores;
\* a record whose satellite ID occurs in the audits list has the scores of the
\* last audit entry with that ID, any other record has 1.0 for all three.
C16_ScoresFromLastAudit ==
    (x_pc = "extract_satellite_status" /\ ~x_out.raised) =>
        LET audits == x_satellite_info.audits
            before == StatusLoop("node1", x_node_info.satellites, 1)
        IN  /\ Len(x_out.value) = Len(before)
            /\ \A i \in 1..Len(before) :
                  LET record == x_out.value[i]
                      ks == AuditsOf(audits, record.satellite_id)
                  IN  /\ before[i].audit_score = ONE
                      /\ before[i].suspension_score = ONE
                      /\ before[i].online_score = ONE
                      /\ [record EXCEPT !.audit_score = ONE, !.suspension_score = ONE,
                                        !.online_score = ONE] = before[i]
                      /\ IF ks = {}
                         THEN /\ record.audit_score = ONE
                              /\ record.suspension_score = ONE
                              /\ record.online_score = ONE
                         ELSE /\ ScoreCopied(record.audit_score,
                                             audits[LastOf(ks)].auditScore)
                              /\ ScoreCopied(record.suspension_score,
                                             audits[LastOf(ks)].suspensionScore)
                              /\ ScoreCopied(record.online_score,
                                             audits[LastOf(ks)].onlineScore)

\* Two audit entries of one satellite, the first without an audit score and the
\* last with 0.87: the satellite's record shows 0.87, beside a record or none of
\* another satellite.
C16_Witness ==
    /\ x_pc = "extract_satellite_status"
    /\ ~x_out.raised
    /\ Len(x_satellite_info.audits) = 2
    /\ x_satellite_info.audits[1].satelliteID = x_satellite_info.audits[2].satelliteID
    /\ x_satellite_info.audits[1].auditScore = Missing
    /\ x_satellite_info.audits[2].auditScore = Num(87)
    /\ \E i \in 1..Len(x_out.value) :
          /\ x_out.value[i].satellite_id = x_satellite_info.audits[2].satelliteID
          /\ x_out.value[i].audit_score = 87
          /\ x_out.value[i].online_score = 99

\* The nodes whose iteration of the cycle's loop ended successfully.
Collected == {n \in NodeSet : outcome[n] = "ok"}

\* rows holds every row of before and exactly one new row for each node collected.
OneRowPerCollected(before, rows) ==
    /\ before \subseteq rows
    /\ Cardinality(rows \ before) = Cardinality(Collected)
    /\ \A n \in Collected :
          Cardinality({r \in rows \ before : r.node_name = n}) = 1

\* C17: the disk, bandwidth and health tables only grow, and a cycle whose store
\* step commits adds to each of them exactly one row for every node collected
\* successfully in that cycle and no other row.
C17_SnapshotsAppendOnly ==
    /\ db_pre.metrics_disk \subseteq db.metrics_disk
    /\ db_pre.metrics_bandwidth \subseteq db.metrics_bandwidth
    /\ db_pre.metrics_health \subseteq db.metrics_health
    /\ store_result = "committed" =>
          /\ OneRowPerCollected(db_pre.metrics_disk, db.metrics_disk)
          /\ OneRowPerCollected(db_pre.metrics_bandwidth, db.metrics_bandwidth)
          /\ OneRowPerCollected(db_pre.metrics_health, db.metrics_health)

\* The tables whose rows carry the timestamp of the cycle that collected them.
TimestampedTables == {"metrics_disk", "metrics_bandwidth", "metrics_health",
                      "node_satellites"}

\* C18: a failed store step leaves the database as it was before the cycle and
\* returns to run(); every cycle starts with empty buffers, and no record collected
\* in a cycle whose store step failed is in the database, or written on the
\* writer's connection, at any later time.
C18_FailedStoreLeavesNothing ==
    /\ store_result = "failed" =>
          /\ db = db_pre
          /\ pc \in {"loop", "wait", "sleep", "after_wait"}
    /\ (pc = "collect" /\ idx = 1) => all_metrics = EmptyMetrics
    /\ \A t \in TimestampedTables :
          \A r \in db[t] \cup txn[t] : r.timestamp \notin failed_cycles

\* The store step of the first cycle failed; the second cycle committed rows of
\* its own.
C18_Witness ==
    /\ 1 \in failed_cycles
    /\ cycle = 2
    /\ store_result = "committed"
    /\ db_pre = EmptyDb
    /\ \E r \in db.metrics_disk : r.timestamp = 2
    /\ \E r \in db.node_satellites : r.timestamp = 2

\* C19: node_satellites holds at most one row per (node, satellite), equal in
\* every column to the status record of the most recent committed cycle that held
\* a record of that node and satellite.
C19_SatelliteStatusLastWriteWins ==
    /\ db.node_satellites = last_daily.status
    /\ OneRowPerKey("node_satellites", db.node_satellites)
    /\ \A r, q \in db.node_satellites :
          (r.node_name = q.node_name /\ r.satellite_id = q.satellite_id) => r = q

\* A committed cycle replaced the status row an earlier cycle left for a node
\* and satellite by a row with another vetting state.
C19_Witness ==
    /\ store_result = "committed"
    /\ \E r \in db_pre.node_satellites :
          /\ r \notin db.node_satellites
          /\ \E q \in db.node_satellites :
                /\ q.node_name = r.node_name
                /\ q.satellite_id = r.satellite_id
                /\ q.timestamp > r.timestamp
                /\ q.is_vetted # r.is_vetted

\* The dates of the entries of a daily list that have a parseable intervalStart.
DatesOf(entries) ==
    {IntervalDate(entries[i]) : i \in {k \in 1..Len(entries) : IntervalDate(entries[k]) >= 0}}

\* records holds exactly one record for each date.
OneRecordPerDate(records, dates) ==
    /\ Len(records) = Cardinality(dates)
    /\ \A d \in dates : Cardinality({k \in 1..Len(records) : records[k].date = d}) = 1

\* C20: extract_daily_bandwidth_metrics and extract_daily_storage_metrics do not
\* raise on entries whose intervalStart is missing or unparseable, and return
\* exactly one record for each distinct date among the other entries of the list.
C20_OneRecordPerDate ==
    /\ x_pc = "extract_daily_bandwidth_metrics" =>
          /\ ~x_out.raised
          /\ OneRecordPerDate(x_out.value, DatesOf(x_satellite_info.bandwidthDaily))
    /\ x_pc = "extract_daily_storage_metrics" =>
          /\ ~x_out.raised
          /\ OneRecordPerDate(x_out.value, DatesOf(x_satellite_info.storageDaily))


-----------------------------------------------------------------------------
(* The conversion functions of storj_monitor/utils.py *)

\* C21: safe_int never raises; it returns the integer for an int and for a string
\* spelling an integer, the truncated integer for a float and for a string
\* spelling a decimal number ("123.45" gives 123), and the default for any other
\* string and for None.
C21_SafeIntTruncates ==
    u_pc = "safe_int" =>
        /\ u_out.raised = "none"
        /\ u_out.value = IF u_value.t \in {"num", "numstr", "float", "decstr"}
                         THEN u_value.v
                         ELSE u_default

\* C22: timestamp_to_datetime returns a zone-aware datetime for every timestamp
\* it accepts: a Z suffix or an offset keeps its zone, a timestamp without a zone
\* gets UTC; a string that is no timestamp raises ValueError.
C22_TimestampZoneAware ==
    u_pc = "timestamp_to_datetime" =>
        /\ u_value.t = "tsZ" => u_out = Ended("none", [day |-> u_value.v, tz |-> "utc"])
        /\ u_value.t = "tsOff" => u_out = Ended("none", [day |-> u_value.v, tz |-> "offset"])
        /\ u_value.t = "tsNaive" => u_out = Ended("none", [day |-> u_value.v, tz |-> "utc"])
        /\ u_value.t \in {"str", "empty", "numstr", "decstr"} => u_out.raised = "ValueError"

\* The unit a size string names, in any case (0 when it names none).
UnitOf(tail) ==
    IF \E i \in 1..Len(Units) : Upper(tail) = Units[i]
    THEN CHOOSE i \in 1..Len(Units) : Upper(tail) = Units[i]
    ELSE 0

\* C23: human_readable_to_bytes returns n * 1024^k for "<n> <unit>" with the unit
\* B, KB, MB, GB, TB or PB in any case, the number for a bare number, and raises
\* ValueError for an unknown unit or a text that is no number.
C23_HumanReadableToBytes ==
    u_pc = "human_readable_to_bytes" =>
        u_out = IF u_size.n # NoNumber /\ u_size.tail = <<>>
                THEN Ended("none", Bytes(u_size.n, 0))
                ELSE IF u_size.n # NoNumber /\ UnitOf(u_size.tail) # 0
                     THEN Ended("none", Bytes(u_size.n, UnitOf(u_size.tail) - 1))
                     ELSE Ended("ValueError", Bytes(0, 0))

\* C24: calculate_uptime_seconds returns 0 without raising for every started_at
\* that does not parse, an invalid string and None included.
C24_UptimeZeroOnParseFailure ==
    (u_pc = "calculate_uptime_seconds" /\ TimestampResult(u_value) # "ok") =>
        u_out = Ended("none", 0)

-----------------------------------------------------------------------------
(* Vetting state *)

\* C25: a status record has is_vetted = true only if vettedAt is present and
\* parses, and then vetted_at is the parsed value: no record has is_vetted = true
\* with a null vetted_at.
C25_VettedHasVettedAt ==
    (x_pc = "extract_satellite_status" /\ ~x_out.raised) =>
        \A i \in 1..Len(x_out.value) :
            x_out.value[i].is_vetted => x_out.value[i].vetted_at # NoDatetime

\* C26: vetted is terminal: once the stored node_satellites row of a node and
\* satellite has is_vetted = true, every later state of the table holds a row of
\* that node and satellite with is_vetted = true and the same vetted_at.
C26_VettedIsTerminal ==
    [][\A r \in db.node_satellites :
          r.is_vetted =>
              \E q \in db'.node_satellites :
                  /\ q.node_name = r.node_name
                  /\ q.satellite_id = r.satellite_id
                  /\ q.is_vetted
                  /\ q.vetted_at = r.vetted_at]_vars

-----------------------------------------------------------------------------
(* Shutdown *)

\* C27: a stop signal raised during the cool-down after an unexpected failure is
\* observed within one second: while the flag is false in the cool-down, at most
\* one second of sleep is left before the loop reads it.
C27_CooldownStopWithinSecond ==
    (pc = "cooldown" /\ ~is_running) => remaining <= 1

\* C28: once a stop signal has cleared the flag after run() started, run()
\* eventually returns, provided every fetch and store call returns; the cycle in
\* progress still visits every remaining node and runs its store step; and a
\* cycle begins only in a step that found the flag set.
C28_StopEventuallyReturns ==
    /\ (pc # "run" /\ ~is_running) ~> (pc = "stopped")
    /\ [](pc = "store" => \A n \in NodeSet : outcome[n] # "pending")
    /\ [][/\ pc = "collect" => pc' \in {"collect", "store"}
          /\ pc = "store" => pc' \in {"store", "loop"}
          /\ cycle' # cycle => is_running']_vars

\* run() returned after a signal that arrived outside the interval wait; the cycle
\* went on to its store step with every node visited.
C28_Witness ==
    /\ pc = "stopped"
    /\ stop_requested
    /\ ~stop_in_wait
    /\ store_result = "committed"
    /\ \A n \in NodeSet : outcome[n] # "pending"

\* C29: a stop request is never lost: once the signal handler has run, is_running
\* is false and stays false, and the loop of run() begins no further iteration.
C29_StopNeverLost ==
    [][stop_requested => (~is_running' /\ pc' \notin {"wait", "collect"})]_vars

-----------------------------------------------------------------------------
(* Per-satellite daily metrics with repeated entries *)

\* The largest element of a non-empty set of indices.
MaxOf(indices) == CHOOSE k \in indices : \A m \in indices : m <= k

\* C30: for any bandwidthDaily and storageDaily lists, several bandwidth entries
\* of one recognized satellite and date included, extract_daily_satellite_metrics
\* returns no two records of the same (node, satellite, date), and wherever a
\* storage entry exists for a key the metrics_daily_satellite row stored for it
\* has storage_at_rest_bytes equal to atRestTotalBytes of the last such entry.
C30_StorageOfLastEntryStored ==
    (x_pc = "extract_daily_satellite_metrics" /\ ~x_out.raised) =>
        LET storage_daily == x_satellite_info.storageDaily
            stored == ReplaceAll("metrics_daily_satellite", {}, x_out.value)
        IN  /\ \A i, k \in 1..Len(x_out.value) :
                  KeyOf("metrics_daily_satellite", x_out.value[i])
                      = KeyOf("metrics_daily_satellite", x_out.value[k]) => i = k
            /\ \A j \in 1..Len(storage_daily) :
                  Kept(storage_daily[j]) =>
                      LET last == storage_daily[MaxOf(SameKey(storage_daily, storage_daily[j]))]
                      IN  \E row \in stored :
                              /\ row.node_name = "node1"
                              /\ row.satellite_id = last.satelliteId
                              /\ row.date = IntervalDate(last)
                              /\ row.storage_at_rest_bytes =
                                    safe_int(Get(last.atRestTotalBytes, Num(0)), 0)

====
